---- MODULE Spec2Model ----
(***************************************************************************)
(* A model of the SRT elements of gst-srt.                                 *)
(*                                                                         *)
(* Part 1: srtserversink (src/unnamed/part_003): the accept thread         *)
(* (thread_func), the delivery path (gst_srt_server_sink_send_buffer,      *)
(* called from gst_srt_base_sink_render) and start/stop, over a transport  *)
(* whose calls (srt_epoll_wait, srt_accept, srt_sendmsg2, ...) return      *)
(* nondeterministically among the outcomes the library can produce.        *)
(*                                                                         *)
(* Part 2: gst_srt_client_connect_full (src/gst-srt/gstsrt.c) as called by *)
(* gst_srt_client_src_start (src/gst-srt/gstsrtclientsrc.c).               *)
(***************************************************************************)
EXTENDS Integers, Sequences, FiniteSets, TLC

(* ------------------------------------------------------------------ *)
(* Bounds of the model                                                *)
(* ------------------------------------------------------------------ *)

\* Connection attempts the environment makes on the listening socket.
MaxClients == 2

\* Connection attempts under the specifications that record the
\* backpressure history or state fairness.
FewClients == 1

\* Calls of gst_srt_client_src_start.
MaxStarts == 2

\* How far on either side of a boundary the inputs of can_client_recv go.
Near == 20

(* ------------------------------------------------------------------ *)
(* Program constants                                                  *)
(* ------------------------------------------------------------------ *)

\* #define MAX_SEND_FAILS 10
MAX_SEND_FAILS == 10

\* #define SRT_SEND_BUFFER_SIZE 1024 * 1024
SRT_SEND_BUFFER_SIZE == 1024 * 1024

\* const int default_msg_size = 1316 in can_client_recv
default_msg_size == 1316

\* #define SRT_DEFAULT_POLL_TIMEOUT - 1
SRT_DEFAULT_POLL_TIMEOUT == -1

\* Handle values: a zero-initialised private field, SRT_INVALID_SOCK and
\* SRT_ERROR (both -1), and the n-th handle the transport hands out.
ZERO == 0
SRT_INVALID_SOCK == -1
SRT_ERROR == -1
Handle(n) == n

\* The listening socket of the server and its epoll id.
LSOCK == Handle(1)
LPOLL == Handle(1)

ClientIds == 1..MaxClients

\* poll-timeout values a user can set: the default (infinite) and a finite one.
PollTimeouts == {SRT_DEFAULT_POLL_TIMEOUT, 100}

\* Values srt_getsockflag (SRTO_SNDDATA) can report: the two on either side
\* of the threshold of can_client_recv.
UnackedValues == {SRT_SEND_BUFFER_SIZE - default_msg_size - 1,
                  SRT_SEND_BUFFER_SIZE - default_msg_size}

VARIABLES
  \* GstSRTServerSinkPrivate
  cancelled, sock, poll_id, poll_timeout, thread, clients, pending_clients,
  \* SRTClient.num_send_fails of each record
  num_send_fails,
  \* state of the GAsyncQueue and of the GList nodes: "valid" | "freed"
  queue_state, list_state,
  \* control state: the framework's view of the element, the accept thread,
  \* the render call, the stop call
  phase, tpc, rpc, spc,
  \* transport: the listening socket, its epoll, connection attempts seen,
  \* srt_close calls per client socket, calls made on handles that are not open
  lsock_state, lpoll_state, registered, attempts, closed, bad_calls,
  \* signals emitted per client
  added, removed,
  \* history of the current delivery cycle and of each promotion
  cycle_live, unit_sent, last_ret, boot,
  \* history of stop: live and pending counts when it drains, removals it emits
  stop_live, stop_pending, stop_emitted,
  \* history of the backpressure checks: current run of failed checks, and the
  \* run at a backpressure eviction (-1: none)
  run, bp_evict_run,
  \* GstSRTClientSrcPrivate.sock and .poll_id, and whether the source is started
  src_sock, src_poll_id, src_phase,
  \* which of the two copies of gstsrtclientsrc.c the element is built from,
  \* GstSRTClientSrcPrivate.poll_timeout and .last_msg_num
  src_variant, src_poll_timeout, src_last_msg_num,
  \* history: the number of the last message received since start (-1: none)
  src_seen,
  \* transport of the client source: start calls made, the handles that are
  \* open, and the last call of the element with the transport calls it made
  src_starts, src_tr, src_call,
  \* the value array of the last read of the server's "stats" property
  stats,
  \* GstSRTBaseSink.uri, GstSRTBaseSrc.uri and GstSRTBaseSrc.key_length, and
  \* the last call made on the configuration surface
  sink_uri, src_uri, key_length, cfg_call,
  \* GstSRTClientSrcPrivate.rendezvous, .bind_address and .bind_port
  src_cfg,
  \* GstSRTClientSinkPrivate.sock and .poll_id, whether the sink is started,
  \* its transport, and the last call of the element
  snk_sock, snk_poll_id, snk_phase, snk_tr, snk_call,
  \* history of the current iteration of the accept loop: what srt_epoll_wait
  \* and srt_accept returned
  iter,
  \* the holder of the object lock of the server: "none" | "render" | "stats" | "stop"
  lock,
  \* history of the current delivery cycle: per client, what the transport
  \* answered and the failure counter at the beginning of the cycle
  cycle_in,
  \* the last call of can_client_recv on its own: the unacknowledged bytes
  \* reported and the result
  bp_check

vars == <<cancelled, sock, poll_id, poll_timeout, thread, clients,
          pending_clients, num_send_fails, queue_state, list_state,
          phase, tpc, rpc, spc,
          lsock_state, lpoll_state, registered, attempts, closed, bad_calls,
          added, removed, cycle_live, unit_sent, last_ret, boot,
          stop_live, stop_pending, stop_emitted, run, bp_evict_run,
          src_sock, src_poll_id, src_phase, src_variant, src_poll_timeout,
          src_last_msg_num, src_seen, src_starts, src_tr, src_call,
          stats, sink_uri, src_uri, key_length, cfg_call, src_cfg,
          snk_sock, snk_poll_id, snk_phase, snk_tr, snk_call,
          iter, lock, cycle_in, bp_check>>

privVars == <<cancelled, sock, poll_id, poll_timeout, thread>>
registryVars == <<clients, pending_clients, num_send_fails, queue_state, list_state>>
transportVars == <<lsock_state, lpoll_state, registered, attempts, closed, bad_calls>>
signalVars == <<added, removed>>
cycleVars == <<cycle_live, unit_sent, last_ret, boot>>
stopHist == <<stop_live, stop_pending, stop_emitted>>
bpHist == <<run, bp_evict_run>>
srcVars == <<src_sock, src_poll_id, src_phase, src_variant, src_poll_timeout,
             src_last_msg_num, src_seen, src_starts, src_tr, src_call>>
cfgVars == <<sink_uri, src_uri, key_length, cfg_call, src_cfg>>
snkVars == <<snk_sock, snk_poll_id, snk_phase, snk_tr, snk_call>>

Range(s) == {s[i] : i \in 1..Len(s)}

\* The records reachable through priv->clients / priv->pending_clients.
Live == IF list_state = "valid" THEN Range(clients) ELSE {}
Pending == IF queue_state = "valid" THEN Range(pending_clients) ELSE {}

\* f with the entries of S raised by one / set to v.
Inc(f, S) == [c \in DOMAIN f |-> IF c \in S THEN f[c] + 1 ELSE f[c]]
Put(f, S, v) == [c \in DOMAIN f |-> IF c \in S THEN v ELSE f[c]]

(* ------------------------------------------------------------------ *)
(* gst_srt_client_src_init                                             *)
(* ------------------------------------------------------------------ *)

\* The transport with nothing open.
NoTransport == [polls |-> {}, socks |-> {}, connected |-> {}, reg |-> {}, bad |-> {}]

\* No srt_bind recorded: the arguments the function was given and the
\* address and port it bound to.
NoBind == [tracked |-> FALSE, in_address |-> "NULL", in_port |-> 0, target |-> 0,
           address |-> "NULL", port |-> 0]

\* No call of the element has been made yet.
NoCall == [op |-> "none", fail |-> "none", reason |-> "none",
           is_sender |-> FALSE, rendezvous |-> FALSE, passphrase |-> "NULL",
           bind |-> NoBind,
           poll_in |-> SRT_ERROR,
           ret |-> SRT_INVALID_SOCK, poll_out |-> SRT_ERROR,
           addr_out |-> "NULL", calls |-> <<>>, bad |-> {},
           after |-> "none", flow |-> "none", wait |-> "none",
           recv_called |-> FALSE, recv_len |-> -1, size |-> -1,
           msgno |-> -1, prev |-> -1, last_in |-> -1, diag |-> -1]

\* The two copies of the client source in gstsrtclientsrc.c.
SrcVariants == {"current", "older"}

SrcInitWith(variant, timeout) ==
  /\ src_variant = variant
  /\ src_poll_timeout = timeout
  /\ src_last_msg_num = 0
  /\ src_seen = -1
  /\ src_sock = SRT_INVALID_SOCK
  /\ src_poll_id = SRT_ERROR
  /\ src_phase = "stopped"
  /\ src_starts = 0
  /\ src_tr = NoTransport
  /\ src_call = NoCall

SrcInit == SrcInitWith("current", SRT_DEFAULT_POLL_TIMEOUT)

(* ------------------------------------------------------------------ *)
(* URIs, and gst_srt_base_sink_init / gst_srt_base_src_init            *)
(* ------------------------------------------------------------------ *)

\* A URI string is the sequence of its parts: <<"srt", "://", host, ":", port>>.
SRT_URI_SCHEME == "srt"
SRT_DEFAULT_HOST == "127.0.0.1"
SRT_DEFAULT_URI(port) == <<SRT_URI_SCHEME, "://", SRT_DEFAULT_HOST, ":", port>>

\* G_STRINGIFY (SRT_DEFAULT_PORT) of the base sink and of the base source.
SinkDefaultPort == "7001"
SrcDefaultPort == "7000"

\* The strings handed to the URI setters: the two defaults, two other srt
\* URIs (one without a port), another scheme, the scheme in upper case, a
\* string without a scheme, the empty string.
UriStrings ==
  {SRT_DEFAULT_URI(SinkDefaultPort), SRT_DEFAULT_URI(SrcDefaultPort),
   <<"srt", "://", "example.org", ":", "9000">>,
   <<"srt", "://", "example.org">>,
   <<"udp", "://", "127.0.0.1", ":", "7001">>,
   <<"SRT", "://", "127.0.0.1", ":", "7001">>,
   <<"127.0.0.1", ":", "7001">>,
   <<>>}

\* gst_uri_from_string: the parts of the string; a string without "://" has
\* no scheme.
NoUri == [scheme |-> "NULL", host |-> "NULL", port |-> "NULL"]
gst_uri_from_string(str) ==
  IF Len(str) >= 3 /\ str[2] = "://"
  THEN [scheme |-> str[1], host |-> str[3],
        port |-> IF Len(str) = 5 /\ str[4] = ":" THEN str[5] ELSE "NULL"]
  ELSE NoUri

gst_uri_get_scheme(uri) == uri.scheme

gst_uri_to_string(uri) ==
  IF uri.scheme = "NULL" THEN <<>>
  ELSE <<uri.scheme, "://", uri.host>>
       \o (IF uri.port = "NULL" THEN <<>> ELSE <<":", uri.port>>)

\* g_strcmp0 compares byte by byte: 0 exactly for equal strings.
g_strcmp0(a, b) == IF a = b THEN 0 ELSE 1

\* The key lengths srt accepts, and the values the "key-length" property
\* lets through to the setter (its GParamSpec has the range 16..32).
KeyLengths == {16, 24, 32}
KeyLengthInputs == {16, 17, 24, 31, 32}

\* SRT_DEFAULT_KEY_LENGTH is defined in a header of the repository.
SRT_DEFAULT_KEY_LENGTH == 16

\* A property value: the field of its type holds it.
NoValue == [int |-> 0, bool |-> FALSE, str |-> "NULL"]
IntValue(i) == [NoValue EXCEPT !.int = i]
BoolValue(b) == [NoValue EXCEPT !.bool = b]
StrValue(str) == [NoValue EXCEPT !.str = str]

NoCfgCall == [op |-> "none", elem |-> "none", arg |-> <<>>, has_error |-> FALSE,
              prop |-> "none", value |-> NoValue,
              ret |-> TRUE, error |-> "NULL", prior |-> <<>>, got |-> <<>>,
              after_rejected |-> FALSE, key_in |-> -1, key_prior |-> -1]

CfgInit ==
  /\ sink_uri = gst_uri_from_string(SRT_DEFAULT_URI(SinkDefaultPort))
  /\ src_uri = gst_uri_from_string(SRT_DEFAULT_URI(SrcDefaultPort))
  /\ key_length = SRT_DEFAULT_KEY_LENGTH
  /\ cfg_call = NoCfgCall
  /\ src_cfg = [rendezvous |-> FALSE, bind_address |-> "NULL", bind_port |-> 0]

(* ------------------------------------------------------------------ *)
(* gst_srt_client_sink_init                                            *)
(* ------------------------------------------------------------------ *)

NoSinkCall == [op |-> "none", reason |-> "none", calls |-> <<>>, bad |-> {},
               mapped |-> FALSE, sends |-> 0, send_ok |-> FALSE,
               error |-> "none", flow |-> "none"]

SnkInit ==
  /\ snk_sock = ZERO
  /\ snk_poll_id = ZERO
  /\ snk_phase = "stopped"
  /\ snk_tr = NoTransport
  /\ snk_call = NoSinkCall

(* ------------------------------------------------------------------ *)
(* gst_srt_server_sink_init                                            *)
(* ------------------------------------------------------------------ *)

\* No wait and no accept yet in this iteration of the accept loop, and no
\* client accepted so far while the cancellation flag was set.
NoIter == [wait |-> "none", reported |-> FALSE, accept |-> "none", during |-> "none",
           late |-> FALSE]

\* No delivery cycle recorded.
NoCycle ==
  [c \in ClientIds |->
     [live |-> FALSE, fails |-> 0, unacked |-> 0, send |-> FALSE, log |-> <<>>]]

\* No call of can_client_recv recorded.
NoCheck == [applied |-> FALSE, unacked |-> 0, result |-> FALSE]

\* No read of "stats" yet.
NoStats == [read |-> FALSE, reports |-> <<>>, live |-> {}, list |-> "valid",
            rpc |-> "idle", closed |-> {}]

ServerInit ==
  /\ cancelled = FALSE
  /\ sock = ZERO
  /\ poll_id = ZERO
  /\ poll_timeout \in PollTimeouts
  /\ thread = "NULL"
  /\ clients = <<>>
  /\ pending_clients = <<>>
  /\ num_send_fails = [c \in ClientIds |-> 0]
  /\ queue_state = "valid"
  /\ list_state = "valid"
  /\ phase = "init"
  /\ tpc = "none"
  /\ rpc = "idle"
  /\ spc = "idle"
  /\ lsock_state = "none"
  /\ lpoll_state = "none"
  /\ registered = FALSE
  /\ attempts = 0
  /\ closed = [c \in ClientIds |-> 0]
  /\ bad_calls = {}
  /\ added = [c \in ClientIds |-> 0]
  /\ removed = [c \in ClientIds |-> 0]
  /\ cycle_live = {}
  /\ unit_sent = {}
  /\ last_ret = "none"
  /\ boot = [c \in ClientIds |-> "none"]
  /\ stop_live = -1
  /\ stop_pending = -1
  /\ stop_emitted = 0
  /\ run = [c \in ClientIds |-> 0]
  /\ bp_evict_run = [c \in ClientIds |-> -1]
  /\ stats = NoStats
  /\ iter = NoIter
  /\ lock = "none"
  /\ cycle_in = NoCycle
  /\ bp_check = NoCheck

Init == ServerInit /\ SrcInit /\ CfgInit /\ SnkInit

(* ------------------------------------------------------------------ *)
(* Transport calls on the listening socket and its epoll               *)
(* ------------------------------------------------------------------ *)

\* srt_epoll_release (id): releases an open epoll; any other id is a call
\* on a handle that is not open.
EpollReleaseState(id, st) == IF id = LPOLL /\ st = "open" THEN "released" ELSE st
EpollReleaseBad(id, st) ==
  IF id = LPOLL /\ st = "open" THEN {} ELSE {<<"srt_epoll_release", id>>}

\* srt_close (s) on the listening socket field.
CloseSkipped(s, st) == st
CloseState(s, st) == IF s = LSOCK /\ st = "open" THEN "closed" ELSE st
CloseBad(s, st) == IF s = LSOCK /\ st = "open" THEN {} ELSE {<<"srt_close", s>>}

(* ------------------------------------------------------------------ *)
(* gst_srt_server_sink_start                                           *)
(* ------------------------------------------------------------------ *)

\* The steps of start that can fail, in the order of the code.
StartFailPoints ==
  {"port", "host", "to_native", "socket", "epoll_create", "bind", "listen", "thread"}

\* priv->sock and priv->poll_id when start reaches `failed:` from step f.
StartSockAt(f) ==
  IF f \in {"host", "to_native"} THEN sock
  ELSE IF f = "socket" THEN SRT_INVALID_SOCK
  ELSE LSOCK
StartPollAt(f) ==
  IF f \in {"host", "to_native", "socket"} THEN poll_id
  ELSE IF f = "epoll_create" THEN SRT_ERROR
  ELSE LPOLL

\* The transport state when start reaches `failed:` from step f.
StartLsockAt(f) == IF f \in {"host", "to_native", "socket"} THEN lsock_state ELSE "open"
StartLpollAt(f) ==
  IF f \in {"host", "to_native", "socket", "epoll_create"} THEN lpoll_state ELSE "open"

StartOk ==
  /\ phase = "init"
  /\ sock' = LSOCK
  /\ poll_id' = LPOLL
  /\ lsock_state' = "open"
  /\ lpoll_state' = "open"
  /\ registered' = TRUE
  /\ thread' = "thread"
  /\ tpc' = "top"
  /\ phase' = "started"
  /\ UNCHANGED <<cancelled, poll_timeout, registryVars, rpc, spc, attempts,
                 closed, bad_calls, signalVars, cycleVars, stopHist, bpHist, srcVars, stats, cfgVars, snkVars,
                 iter, lock, cycle_in, bp_check>>

StartFail(f) ==
  /\ phase = "init"
  /\ phase' = "start_failed"
  /\ IF f = "port"
     THEN UNCHANGED <<cancelled, sock, poll_id, lsock_state, lpoll_state, bad_calls>>
     ELSE /\ cancelled' = TRUE
          /\ poll_id' = SRT_ERROR
          /\ sock' = SRT_INVALID_SOCK
          /\ lpoll_state' =
               IF StartPollAt(f) # SRT_ERROR
               THEN EpollReleaseState(StartPollAt(f), StartLpollAt(f))
               ELSE StartLpollAt(f)
          /\ lsock_state' =
               IF StartSockAt(f) # SRT_INVALID_SOCK
               THEN CloseState(StartSockAt(f), StartLsockAt(f))
               ELSE StartLsockAt(f)
          /\ bad_calls' = bad_calls
               \cup (IF StartPollAt(f) # SRT_ERROR
                     THEN EpollReleaseBad(StartPollAt(f), StartLpollAt(f)) ELSE {})
               \cup (IF StartSockAt(f) # SRT_INVALID_SOCK
                     THEN CloseBad(StartSockAt(f), StartLsockAt(f)) ELSE {})
  /\ UNCHANGED <<poll_timeout, thread, registryVars, tpc, rpc, spc, registered,
                 attempts, closed, signalVars, cycleVars, stopHist, bpHist, srcVars, stats, cfgVars, snkVars,
                 iter, lock, cycle_in, bp_check>>

Start == StartOk \/ \E f \in StartFailPoints : StartFail(f)

\* A second start of the element after stop has returned, with every step
\* succeeding: it creates the socket, the epoll and the thread again, and
\* writes neither priv->cancelled nor priv->clients nor priv->pending_clients,
\* which only init creates.
StartAgain ==
  /\ phase = "started"
  /\ spc = "done"
  /\ sock' = LSOCK
  /\ poll_id' = LPOLL
  /\ lsock_state' = "open"
  /\ lpoll_state' = "open"
  /\ registered' = TRUE
  /\ thread' = "thread"
  /\ tpc' = "top"
  /\ phase' = "restarted"
  /\ spc' = "idle"
  /\ UNCHANGED <<cancelled, poll_timeout, registryVars, rpc, attempts,
                 closed, bad_calls, signalVars, cycleVars, stopHist, bpHist, srcVars, stats, cfgVars, snkVars,
                 iter, lock, cycle_in, bp_check>>

(* ------------------------------------------------------------------ *)
(* thread_func: the accept thread                                      *)
(* ------------------------------------------------------------------ *)

\* while (!priv->cancelled)
LoopForever(c) == TRUE
LoopContinues(c) == ~c

ThreadTop ==
  /\ tpc = "top"
  /\ tpc' = IF LoopContinues(cancelled) THEN "wait" ELSE "exit"
  /\ iter' = [NoIter EXCEPT !.late = iter.late]
  /\ UNCHANGED <<privVars, registryVars, phase, rpc, spc, transportVars,
                 signalVars, cycleVars, stopHist, bpHist, srcVars, stats, cfgVars, snkVars,
                 lock, cycle_in, bp_check>>

\* What srt_epoll_wait can return: "ready" when a connection attempt is
\* waiting on the open epoll, "timeout" when the timeout is finite, "error"
\* (not SRT_ETIMEOUT) when the transport fails the call or the epoll id is no
\* longer open.  With the infinite timeout and nothing ready the call
\* returns only with an error.
WaitOutcomes(maxc) ==
  (IF lpoll_state = "open" /\ lsock_state = "open" /\ attempts < maxc
   THEN {"ready"} ELSE {})
  \cup (IF lpoll_state = "open" /\ poll_timeout >= 0 THEN {"timeout"} ELSE {})
  \cup {"error"}

\* GST_ELEMENT_ERROR is posted for an error that is not a timeout.
WaitReported(r) == r = "error"

\* A loop that leaves on an error of the wait.
AfterWaitErrorExits(r) ==
  IF r = "error" THEN "exit"
  ELSE IF r = "timeout" /\ cancelled THEN "top"
  ELSE "accept"

\* Where the loop goes after srt_epoll_wait returned r.
AfterWait(r) ==
  IF r = "error" THEN "top"
  ELSE IF r = "timeout" /\ cancelled THEN "top"
  ELSE "accept"

ThreadWait(maxc) ==
  /\ tpc = "wait"
  /\ \E r \in WaitOutcomes(maxc) :
       /\ tpc' = AfterWait(r)
       /\ iter' = [iter EXCEPT !.wait = r, !.reported = WaitReported(r)]
  /\ UNCHANGED <<privVars, registryVars, phase, rpc, spc, transportVars,
                 signalVars, cycleVars, stopHist, bpHist, srcVars, stats, cfgVars, snkVars,
                 lock, cycle_in, bp_check>>

\* What srt_accept can return: a new client socket or SRT_INVALID_SOCK for a
\* waiting connection attempt, SRT_INVALID_SOCK once the listening socket is
\* closed.  On an open socket with no attempt waiting the call does not return.
AcceptOutcomes(maxc) ==
  IF lsock_state # "open" THEN {"closed"}
  ELSE IF attempts < maxc THEN {"client", "invalid"}
  ELSE {}

\* What the loop does with an accepted client, in the order of the code:
\* g_signal_emit (SIG_CLIENT_ADDED), then g_async_queue_push.
AcceptOrderPushFirst == <<"push", "emit">>
AcceptOrder == <<"emit", "push">>

\* srt_client_free closes the socket of the record unless it is
\* SRT_INVALID_SOCK.
srt_client_free_always(s) == TRUE
srt_client_free_closes(s) == s # SRT_INVALID_SOCK

\* g_async_queue_push adds the record at the tail of the queue.
g_async_queue_push_front(q, c) == <<c>> \o q
g_async_queue_push(q, c) == Append(q, c)

\* One of the two steps for client c.
ClientStep(what, c) ==
  IF what = "emit"
  THEN added' = Inc(added, {c}) /\ UNCHANGED pending_clients
  ELSE pending_clients' = g_async_queue_push(pending_clients, c) /\ UNCHANGED added

\* The history of the iteration after one of the two steps: where the
\* delivery path was when the record was pushed.
PushedDuring(what, it) == IF what = "push" THEN [it EXCEPT !.during = rpc] ELSE it

\* srt_client_new, srt_accept and, for a client, the first of the two steps;
\* a failed accept frees the record, whose sock is SRT_INVALID_SOCK, and
\* goes back to the head of the loop.
ThreadAccept(maxc) ==
  /\ tpc = "accept"
  /\ \E r \in AcceptOutcomes(maxc) :
       /\ attempts' = IF r = "closed" THEN attempts ELSE attempts + 1
       /\ iter' = IF r = "client"
                  THEN PushedDuring(AcceptOrder[1],
                         [iter EXCEPT !.accept = r, !.late = @ \/ cancelled])
                  ELSE [iter EXCEPT !.accept = r]
       /\ IF r = "client"
          THEN /\ ClientStep(AcceptOrder[1], attempts + 1)
               /\ tpc' = "push"
          ELSE /\ UNCHANGED <<added, pending_clients>>
               /\ tpc' = "top"
       /\ closed' = IF r # "client" /\ srt_client_free_closes(SRT_INVALID_SOCK)
                     THEN Inc(closed, {attempts + 1})
                     ELSE closed
  /\ UNCHANGED <<privVars, clients, num_send_fails, queue_state, list_state,
                 phase, rpc, spc, lsock_state, lpoll_state, registered,
                 bad_calls, removed, cycleVars, stopHist, bpHist, srcVars, stats, cfgVars, snkVars,
                 lock, cycle_in, bp_check>>

\* The second of the two steps for the client just accepted.
ThreadPush ==
  /\ tpc = "push"
  /\ ClientStep(AcceptOrder[2], attempts)
  /\ iter' = PushedDuring(AcceptOrder[2], iter)
  /\ tpc' = "top"
  /\ UNCHANGED <<privVars, clients, num_send_fails, queue_state, list_state,
                 phase, rpc, spc, transportVars, removed, cycleVars, stopHist,
                 bpHist, srcVars, stats, cfgVars, snkVars,
                 lock, cycle_in, bp_check>>

(* ------------------------------------------------------------------ *)
(* gst_srt_server_sink_send_buffer: the delivery path                  *)
(* ------------------------------------------------------------------ *)

\* can_client_recv: the socket has room for one more message.
can_client_recv(unacked) == unacked + default_msg_size < SRT_SEND_BUFFER_SIZE

\* What the transport answers for one live client in one cycle: the
\* unacknowledged bytes it reports and whether srt_sendmsg2 succeeds.
SendOutcomes == [unacked : UnackedValues, send : BOOLEAN]

\* client->num_send_fails after the check of this cycle.
FailsAfter(fails, unacked) == IF can_client_recv(unacked) THEN fails ELSE fails + 1

\* if (client->num_send_fails >= MAX_SEND_FAILS) inside the failed check.
EvictsForBackpressureLate(fails, unacked) ==
  /\ ~can_client_recv(unacked)
  /\ FailsAfter(fails, unacked) > MAX_SEND_FAILS
EvictsForBackpressure(fails, unacked) ==
  /\ ~can_client_recv(unacked)
  /\ FailsAfter(fails, unacked) >= MAX_SEND_FAILS

\* The unit is sent to every client the check did not evict.
SendOnlyIfRoom(fails, unacked) == can_client_recv(unacked)
SendAttempted(fails, unacked) == ~EvictsForBackpressure(fails, unacked)

\* A loop that keeps a client whose first send fails.
EvictsForSendAfterFails(fails, o) ==
  SendAttempted(fails, o.unacked) /\ ~o.send /\ fails > 0

\* if (!send_buffer_internal (sink, mapinfo, client))
EvictsForSend(fails, o) == SendAttempted(fails, o.unacked) /\ ~o.send

\* The clients the first loop removes, given the answers o of the transport.
BpEvicted(o) ==
  {c \in Live : EvictsForBackpressure(num_send_fails[c], o[c].unacked)}
SendEvicted(o) == {c \in Live : EvictsForSend(num_send_fails[c], o[c])}
\* g_list_remove is called for exactly the evicted clients.
KeptAll(o) == Live
Kept(o) == Live \ (BpEvicted(o) \cup SendEvicted(o))

\* The clients for which srt_sendmsg2 was called with the unit and succeeded.
UnitSentWithRoom(o) ==
  {c \in Live : can_client_recv(o[c].unacked) /\ o[c].send}
UnitSent(o) ==
  {c \in Live : SendAttempted(num_send_fails[c], o[c].unacked) /\ o[c].send}

\* gst_srt_base_sink_render: GST_FLOW_ERROR iff send_buffer returned FALSE.
RenderReturn(ok) == IF ok THEN "GST_FLOW_OK" ELSE "GST_FLOW_ERROR"

\* gst_srt_server_sink_send_buffer ends in `return TRUE`.
SendBufferReturn == TRUE

\* GST_OBJECT_LOCK returns when no other thread holds the lock of the object.
LockFreeAlways(l) == TRUE
LockFree(l) == l = "none"

\* GST_OBJECT_LOCK, then the loop over priv->clients.  The history of the
\* failed checks is recorded when track holds.
SendBufferLive(track) ==
  /\ phase = "started"
  /\ spc = "idle"
  /\ rpc = "idle"
  /\ LockFree(lock)
  /\ lock' = "render"
  /\ \E o \in [Live -> SendOutcomes] :
       /\ clients' = SelectSeq(clients, LAMBDA c : c \in Kept(o))
       /\ num_send_fails' =
            [c \in ClientIds |->
               IF c \in Kept(o) THEN FailsAfter(num_send_fails[c], o[c].unacked)
               ELSE IF c \in Live THEN 0
               ELSE num_send_fails[c]]
       /\ removed' = Inc(removed, BpEvicted(o) \cup SendEvicted(o))
       /\ closed' = Inc(closed, BpEvicted(o) \cup SendEvicted(o))
       /\ unit_sent' = UnitSent(o)
       /\ IF track
          THEN /\ run' =
                    [c \in ClientIds |->
                       IF c \in Kept(o) /\ ~can_client_recv(o[c].unacked)
                       THEN run[c] + 1 ELSE 0]
               /\ bp_evict_run' =
                    [c \in ClientIds |->
                       IF c \in BpEvicted(o) THEN run[c] + 1 ELSE bp_evict_run[c]]
               /\ cycle_in' =
                    [c \in ClientIds |->
                       IF c \in Live
                       THEN [live |-> TRUE, fails |-> num_send_fails[c],
                             unacked |-> o[c].unacked, send |-> o[c].send,
                             log |-> IF SendAttempted(num_send_fails[c], o[c].unacked)
                                     THEN <<"unit">> ELSE <<>>]
                       ELSE NoCycle[c]]
          ELSE UNCHANGED <<bpHist, cycle_in>>
  /\ cycle_live' = Live
  /\ rpc' = "drain"
  /\ UNCHANGED <<privVars, pending_clients, queue_state, list_state, phase, spc,
                 tpc, lsock_state, lpoll_state, registered, attempts, bad_calls,
                 added, last_ret, boot, stopHist, srcVars, stats, cfgVars, snkVars,
                 iter, bp_check>>

\* What happens to a popped client: both sends succeed, the headers fail,
\* or the headers succeed and the unit fails.
BootOutcomes == {"ok", "hdr_fail", "unit_fail"}

\* The client is prepended to priv->clients only after both sends.
PromotedAfterHeaders(b) == b # "hdr_fail"
Promoted(b) == b = "ok"

\* What send_buffer_internal is called with for a popped client, in the
\* order of the code: the headers, then the unit unless the headers failed.
BootSendsUnitFirst(b) == IF b = "hdr_fail" THEN <<"hdr">> ELSE <<"unit", "hdr">>
BootSends(b) == IF b = "hdr_fail" THEN <<"hdr">> ELSE <<"hdr", "unit">>

\* The queue after g_async_queue_try_pop took its head.
try_pop_peek(q) == q
try_pop_rest(q) == Tail(q)

\* What the application connected to client-removed: nothing, or a handler
\* that reads the "stats" property of the element.
Handlers == {"none", "stats"}

\* g_signal_emit runs the handler in the emitting thread; GST_OBJECT_LOCK in
\* PROP_STATS does not return while the lock of the object is held.
HandlerBlocks(h, l) == h = "stats" /\ ~LockFree(l)

\* g_async_queue_try_pop and the body of the second loop for one client; a
\* NULL pop leaves the loop, unlocks and returns TRUE.  At `err:` the
\* handlers of client-removed run before srt_client_free.
SendBufferPopWith(handlers) ==
  /\ rpc = "drain"
  /\ IF pending_clients = <<>>
     THEN /\ rpc' = "idle"
          /\ last_ret' = RenderReturn(SendBufferReturn)
          /\ cycle_live' = {}
          /\ unit_sent' = {}
          /\ lock' = "none"
          /\ UNCHANGED <<clients, pending_clients, removed, closed, boot, cycle_in>>
     ELSE \E b \in BootOutcomes, h \in handlers :
            LET c == Head(pending_clients) IN
            /\ pending_clients' = try_pop_rest(pending_clients)
            /\ boot' = [boot EXCEPT ![c] = b]
            /\ cycle_in' = [cycle_in EXCEPT ![c].log = @ \o BootSends(b)]
            /\ IF Promoted(b)
               THEN /\ clients' = <<c>> \o clients
                    /\ unit_sent' = unit_sent \cup {c}
                    /\ UNCHANGED <<removed, closed>>
               ELSE /\ removed' = Inc(removed, {c})
                    /\ closed' = IF HandlerBlocks(h, lock) THEN closed
                                  ELSE Inc(closed, {c})
                    /\ UNCHANGED <<clients, unit_sent>>
            /\ rpc' = IF ~Promoted(b) /\ HandlerBlocks(h, lock)
                      THEN "handler_lock" ELSE rpc
            /\ UNCHANGED <<last_ret, cycle_live, lock>>
  /\ UNCHANGED <<privVars, num_send_fails, queue_state, list_state, phase, spc,
                 tpc, lsock_state, lpoll_state, registered, attempts, bad_calls,
                 added, stopHist, bpHist, srcVars, stats, cfgVars, snkVars,
                 iter, bp_check>>

SendBufferPop == SendBufferPopWith({"none"})

(* ------------------------------------------------------------------ *)
(* gst_srt_server_sink_stop                                            *)
(* ------------------------------------------------------------------ *)

\* priv->cancelled = TRUE
StopCancel ==
  /\ phase = "started"
  /\ spc = "idle"
  /\ cancelled' = TRUE
  /\ spc' = "cancelled"
  /\ UNCHANGED <<sock, poll_id, poll_timeout, thread, registryVars, phase, tpc,
                 rpc, transportVars, signalVars, cycleVars, stopHist, bpHist, srcVars, stats, cfgVars, snkVars,
                 iter, lock, cycle_in, bp_check>>

\* srt_epoll_remove_usock (priv->poll_id, priv->sock);
\* srt_epoll_release (priv->poll_id);
StopEpoll ==
  /\ spc = "cancelled"
  /\ registered' = FALSE
  /\ lpoll_state' = EpollReleaseState(poll_id, lpoll_state)
  /\ bad_calls' = bad_calls \cup EpollReleaseBad(poll_id, lpoll_state)
  /\ spc' = "released"
  /\ UNCHANGED <<privVars, registryVars, phase, tpc, rpc, lsock_state, attempts,
                 closed, signalVars, cycleVars, stopHist, bpHist, srcVars, stats, cfgVars, snkVars,
                 iter, lock, cycle_in, bp_check>>

\* srt_close (priv->sock)
StopClose ==
  /\ spc = "released"
  /\ lsock_state' = CloseState(sock, lsock_state)
  /\ bad_calls' = bad_calls \cup CloseBad(sock, lsock_state)
  /\ spc' = "closed"
  /\ UNCHANGED <<privVars, registryVars, phase, tpc, rpc, lpoll_state, registered,
                 attempts, closed, signalVars, cycleVars, stopHist, bpHist, srcVars, stats, cfgVars, snkVars,
                 iter, lock, cycle_in, bp_check>>

\* g_thread_join returns once thread_func has returned.
g_thread_join_at_once(t) == TRUE
g_thread_join(t) == t = "exit"

\* if (priv->thread) { g_thread_join; g_clear_pointer }
StopJoin ==
  /\ spc = "closed"
  /\ thread # "NULL" => g_thread_join(tpc)
  /\ thread' = "NULL"
  /\ tpc' = IF thread # "NULL" /\ tpc = "exit" THEN "joined" ELSE tpc
  /\ spc' = "joined"
  /\ UNCHANGED <<cancelled, sock, poll_id, poll_timeout, registryVars, phase, rpc,
                 transportVars, signalVars, cycleVars, stopHist, bpHist, srcVars, stats, cfgVars, snkVars,
                 iter, lock, cycle_in, bp_check>>

\* The clients for which stop emits client-removed and calls srt_client_free:
\* those of the live list, then those popped from the pending queue.
StopDrainedLiveOnly == Live
StopDrained == Live \cup Pending

\* GST_OBJECT_LOCK; g_list_foreach (srt_emit_client_removed);
\* g_list_free_full (srt_client_free); the try_pop loop; g_async_queue_unref;
\* GST_OBJECT_UNLOCK.  priv->clients keeps pointing at the freed list.
StopDrain ==
  /\ spc = "joined"
  /\ rpc = "idle"
  /\ LockFree(lock)
  /\ removed' = Inc(removed, StopDrained)
  /\ closed' = Inc(closed, StopDrained)
  /\ num_send_fails' = Put(num_send_fails, Live, 0)
  /\ list_state' = "freed"
  /\ pending_clients' = <<>>
  /\ queue_state' = "freed"
  /\ stop_live' = Cardinality(Live)
  /\ stop_pending' = Cardinality(Pending)
  /\ stop_emitted' = Cardinality(StopDrained)
  /\ spc' = "done"
  /\ UNCHANGED <<privVars, clients, phase, tpc, rpc, lsock_state, lpoll_state,
                 registered, attempts, bad_calls, added, cycleVars, bpHist, srcVars, stats, cfgVars, snkVars,
                 iter, lock, cycle_in, bp_check>>

(* ------------------------------------------------------------------ *)
(* Transport calls of the client source                                *)
(* ------------------------------------------------------------------ *)

\* One transport call: the function, the epoll id and socket it is given or
\* returns, an argument, and whether it reports success.
Call(f, p, s, arg, ok) == [f |-> f, poll |-> p, sock |-> s, arg |-> arg, ok |-> ok]

\* The transport after call c.  srt_epoll_release and srt_close on a handle
\* that is not open are recorded in bad.
ApplyCall(tr, c) ==
  IF c.f = "srt_epoll_create" /\ c.ok THEN [tr EXCEPT !.polls = @ \cup {c.poll}]
  ELSE IF c.f = "srt_socket" /\ c.ok THEN [tr EXCEPT !.socks = @ \cup {c.sock}]
  ELSE IF c.f = "srt_connect" /\ c.ok /\ c.arg = "SRTS_CONNECTED"
    THEN [tr EXCEPT !.connected = @ \cup {c.sock}]
  ELSE IF c.f = "srt_epoll_add_usock" /\ c.ok
    THEN [tr EXCEPT !.reg = @ \cup {[poll |-> c.poll, sock |-> c.sock, events |-> c.arg]}]
  ELSE IF c.f = "srt_epoll_remove_usock"
    THEN IF c.poll \in tr.polls /\ c.sock \in tr.socks
         THEN [tr EXCEPT !.reg = {r \in @ : ~(r.poll = c.poll /\ r.sock = c.sock)}]
         ELSE [tr EXCEPT !.bad = @ \cup {c}]
  ELSE IF c.f = "srt_epoll_release"
    THEN IF c.poll \in tr.polls
         THEN [tr EXCEPT !.polls = @ \ {c.poll},
                         !.reg = {r \in @ : r.poll # c.poll}]
         ELSE [tr EXCEPT !.bad = @ \cup {c}]
  ELSE IF c.f = "srt_close"
    THEN IF c.sock \in tr.socks
         THEN [tr EXCEPT !.socks = @ \ {c.sock},
                         !.connected = @ \ {c.sock},
                         !.reg = {r \in @ : r.sock # c.sock}]
         ELSE [tr EXCEPT !.bad = @ \cup {c}]
  ELSE tr

RECURSIVE ApplyCalls(_, _)
ApplyCalls(tr, calls) ==
  IF calls = <<>> THEN tr
  ELSE ApplyCalls(ApplyCall(tr, Head(calls)), Tail(calls))

\* The calls among calls that are made on a handle that is not open.
OpBad(tr, calls) == ApplyCalls([tr EXCEPT !.bad = {}], calls).bad

(* ------------------------------------------------------------------ *)
(* gst_srt_client_connect_full                                         *)
(* ------------------------------------------------------------------ *)

\* Values of the string arguments: NULL, a string that does not parse as an
\* address, one that does.
Hosts == {"NULL", "bad", "good"}
BindAddresses == {"NULL", "bad", "good"}
BindPorts == {0, 7001}
Passphrases == {"NULL", "", "secret"}

ConnectInputs ==
  [is_sender : {FALSE}, host : Hosts, port : {7000}, rendezvous : BOOLEAN,
   bind_address : BindAddresses, bind_port : BindPorts, passphrase : Passphrases]

\* Inputs for the bind block: a host that parses, two values of
\* gst_uri_get_port, one of them equal to a bind port.
TargetPorts == {7000, 7001}
BindInputs ==
  [is_sender : {FALSE}, host : {"good"}, port : TargetPorts, rendezvous : BOOLEAN,
   bind_address : BindAddresses, bind_port : BindPorts, passphrase : {"NULL"}]

\* The calls of the function whose failure the environment decides.
ConnectFailPoints ==
  {"none", "epoll_create", "to_native", "socket", "bind_to_native", "bind",
   "connect", "state", "add_usock"}

\* The checks of the function in the order of the code; "none" stands for
\* reaching `return sock`.
ConnectSteps ==
  <<"null_host", "parse_host", "epoll_create", "to_native", "socket",
    "bind_parse", "bind_to_native", "bind", "connect", "state", "none">>
Rank(r) == CHOOSE i \in 1..Len(ConnectSteps) : ConnectSteps[i] = r

\* if (bind_address || bind_port || rendezvous)
NeedBind(in) == in.bind_address # "NULL" \/ in.bind_port # 0 \/ in.rendezvous

\* if (bind_address == NULL) bind_address = "0.0.0.0";
BindAddressUsed(in) == IF in.bind_address = "NULL" THEN "0.0.0.0" ELSE in.bind_address

\* if (rendezvous) bind_port = port;
BindPortGiven(in) == in.bind_port
BindPortUsed(in) == IF in.rendezvous THEN in.port ELSE in.bind_port

\* The arguments of the function and the address g_inet_socket_address_new_
\* from_string is given inside the bind block.
BindRecord(in) ==
  [tracked |-> TRUE, in_address |-> in.bind_address, in_port |-> in.bind_port,
   target |-> in.port, address |-> BindAddressUsed(in), port |-> BindPortUsed(in)]

\* The check that sends the function to `failed:`, or "none".  The result of
\* srt_epoll_add_usock is logged and not checked.
FailReason(in, fail) ==
  IF in.host = "NULL" THEN "null_host"
  ELSE IF in.host = "bad" THEN "parse_host"
  ELSE IF fail \in {"epoll_create", "to_native", "socket"} THEN fail
  ELSE IF NeedBind(in) /\ in.bind_address = "bad" THEN "bind_parse"
  ELSE IF NeedBind(in) /\ fail \in {"bind_to_native", "bind"} THEN fail
  ELSE IF fail \in {"connect", "state"} THEN fail
  ELSE "none"

\* int events = is_sender ? IN | OUT | ERR : IN | ERR
Events(is_sender) == IF is_sender THEN "IN|OUT|ERR" ELSE "IN|ERR"

\* The srt_setsockopt calls between srt_socket and the bind block.
SockOpts(in, s) ==
  <<Call("srt_setsockopt", SRT_ERROR, s, "SRTO_TSBPDMODE=1", TRUE),
    Call("srt_setsockopt", SRT_ERROR, s, "SRTO_LINGER=0", TRUE),
    Call("srt_setsockopt", SRT_ERROR, s,
         IF in.is_sender THEN "SRTO_SENDER=1" ELSE "SRTO_SENDER=0", TRUE),
    Call("srt_setsockopt", SRT_ERROR, s,
         IF in.is_sender THEN "SRTO_PEERLATENCY" ELSE "SRTO_RCVLATENCY", TRUE),
    Call("srt_setsockopt", SRT_ERROR, s,
         IF in.rendezvous THEN "SRTO_RENDEZVOUS=1" ELSE "SRTO_RENDEZVOUS=0", TRUE)>>
  \o (IF in.passphrase \notin {"NULL", ""}
      THEN <<Call("srt_setsockopt", SRT_ERROR, s, "SRTO_PASSPHRASE", TRUE),
             Call("srt_setsockopt", SRT_ERROR, s, "SRTO_PBKEYLEN", TRUE)>>
      ELSE <<>>)

\* The transport calls made before `return sock` or `goto failed`, when the
\* function stops at r and the transport hands out epoll id np and socket ns.
BodyCalls(in, fail, r, np, ns) ==
  (IF Rank(r) >= Rank("epoll_create")
   THEN <<Call("srt_epoll_create", IF r = "epoll_create" THEN SRT_ERROR ELSE np,
               SRT_INVALID_SOCK, "", r # "epoll_create")>>
   ELSE <<>>)
  \o (IF Rank(r) >= Rank("socket")
      THEN <<Call("srt_socket", SRT_ERROR, IF r = "socket" THEN SRT_ERROR ELSE ns,
                  "", r # "socket")>>
      ELSE <<>>)
  \o (IF Rank(r) > Rank("socket") THEN SockOpts(in, ns) ELSE <<>>)
  \o (IF NeedBind(in) /\ Rank(r) >= Rank("bind")
      THEN <<Call("srt_bind", SRT_ERROR, ns, "", r # "bind")>>
      ELSE <<>>)
  \o (IF Rank(r) >= Rank("connect")
      THEN <<Call("srt_connect", SRT_ERROR, ns,
                  IF r = "state" THEN "SRTS_CONNECTING" ELSE "SRTS_CONNECTED",
                  r # "connect")>>
      ELSE <<>>)
  \o (IF r = "none"
      THEN <<Call("srt_epoll_add_usock", np, ns, Events(in.is_sender),
                  fail # "add_usock")>>
      ELSE <<>>)

\* *poll_id and the local sock when the function reaches `failed:` from r.
PollAtFail(r, poll_in, np) ==
  IF Rank(r) < Rank("epoll_create") THEN poll_in
  ELSE IF r = "epoll_create" THEN SRT_ERROR
  ELSE np
SockAtFail(r, ns) == IF Rank(r) <= Rank("socket") THEN SRT_INVALID_SOCK ELSE ns

\* failed: if (*poll_id != SRT_ERROR) srt_epoll_release (*poll_id);
\*         if (sock != SRT_INVALID_SOCK) srt_close (sock);
FailedCallsNoClose(p, s) ==
  IF p # SRT_ERROR
  THEN <<Call("srt_epoll_release", p, SRT_INVALID_SOCK, "", TRUE)>> ELSE <<>>
FailedCalls(p, s) ==
  (IF p # SRT_ERROR
   THEN <<Call("srt_epoll_release", p, SRT_INVALID_SOCK, "", TRUE)>> ELSE <<>>)
  \o (IF s # SRT_INVALID_SOCK
      THEN <<Call("srt_close", SRT_ERROR, s, "", TRUE)>> ELSE <<>>)

\* The function: what it returns, what it leaves in *poll_id and
\* *socket_address, and the transport calls it makes.
gst_srt_client_connect_full(in, fail, poll_in, np, ns) ==
  LET r == FailReason(in, fail) IN
  IF r = "none"
  THEN [reason |-> r, ret |-> ns, poll_out |-> np, addr_out |-> "address",
        calls |-> BodyCalls(in, fail, r, np, ns)]
  ELSE [reason |-> r, ret |-> SRT_INVALID_SOCK, poll_out |-> SRT_ERROR,
        addr_out |-> "NULL",
        calls |-> BodyCalls(in, fail, r, np, ns)
                  \o FailedCalls(PollAtFail(r, poll_in, np), SockAtFail(r, ns))]

(* ------------------------------------------------------------------ *)
(* gst_srt_client_src_start, _stop, _unlock                            *)
(* ------------------------------------------------------------------ *)

\* The variables of the server sink, which the client source leaves alone,
\* and the configuration of the client source.
serverVars == <<privVars, registryVars, phase, tpc, rpc, spc, transportVars,
                signalVars, cycleVars, stopHist, bpHist,
                iter, lock, cycle_in, bp_check>>
srcConf == <<src_variant, src_poll_timeout>>

\* priv->sock = gst_srt_client_connect_full (..., FALSE, ..., &priv->poll_id,
\* ...); priv->last_msg_num = 0; return (priv->sock != SRT_INVALID_SOCK).
\* The framework starts a source that is not started.  The arguments of the
\* bind block are recorded when track holds.
ClientSrcStartWith(inputs, track) ==
  /\ src_variant = "current"
  /\ src_phase = "stopped"
  /\ src_starts < MaxStarts
  /\ \E in \in inputs, fail \in ConnectFailPoints :
       LET res == gst_srt_client_connect_full(in, fail, src_poll_id,
                    Handle(src_starts + 1), Handle(src_starts + 1))
       IN /\ src_sock' = res.ret
          /\ src_poll_id' = res.poll_out
          /\ src_phase' = IF res.ret # SRT_INVALID_SOCK THEN "started" ELSE "stopped"
          /\ src_tr' = ApplyCalls(src_tr, res.calls)
          /\ src_call' = [NoCall EXCEPT !.op = "start", !.fail = fail,
                            !.reason = res.reason, !.is_sender = in.is_sender,
                            !.rendezvous = in.rendezvous,
                            !.passphrase = in.passphrase,
                            !.bind = IF track THEN BindRecord(in) ELSE NoBind,
                            !.poll_in = src_poll_id, !.ret = res.ret,
                            !.poll_out = res.poll_out,
                            !.addr_out = res.addr_out, !.calls = res.calls,
                            !.bad = OpBad(src_tr, res.calls)]
  /\ src_last_msg_num' = 0
  /\ src_seen' = -1
  /\ src_starts' = src_starts + 1
  /\ UNCHANGED <<serverVars, srcConf, stats, cfgVars, snkVars>>

ClientSrcStart == ClientSrcStartWith(ConnectInputs, FALSE)

\* The transport calls of gst_srt_client_src_unlock.
UnlockCalls(p, s) ==
  (IF p # SRT_ERROR
   THEN (IF s # SRT_INVALID_SOCK
         THEN <<Call("srt_epoll_remove_usock", p, s, "", TRUE)>> ELSE <<>>)
        \o <<Call("srt_epoll_release", p, SRT_INVALID_SOCK, "", TRUE)>>
   ELSE <<>>)
  \o (IF s # SRT_INVALID_SOCK
      THEN <<Call("srt_close", SRT_ERROR, s, "", TRUE)>> ELSE <<>>)

\* The framework calls unlock whenever it sets the source flushing: before
\* stop, and also on a source that is not started or whose start failed.
ClientSrcUnlock ==
  /\ src_variant = "current"
  /\ src_phase # "finalized"
  /\ src_tr' = ApplyCalls(src_tr, UnlockCalls(src_poll_id, src_sock))
  /\ src_call' = [NoCall EXCEPT !.op = "unlock", !.poll_in = src_poll_id,
                                !.calls = UnlockCalls(src_poll_id, src_sock),
                                !.bad = OpBad(src_tr, UnlockCalls(src_poll_id, src_sock)),
                                !.after = src_call.op]
  /\ src_poll_id' = SRT_ERROR
  /\ src_sock' = SRT_INVALID_SOCK
  /\ UNCHANGED <<src_phase, src_starts, src_last_msg_num, src_seen>>
  /\ UNCHANGED <<serverVars, srcConf, stats, cfgVars, snkVars>>

\* gst_srt_client_src_stop does nothing and returns TRUE; the framework calls
\* it after unlock.
ClientSrcStop ==
  /\ src_variant = "current"
  /\ src_phase = "started"
  /\ src_poll_id = SRT_ERROR /\ src_sock = SRT_INVALID_SOCK
  /\ src_phase' = "stopped"
  /\ src_call' = [NoCall EXCEPT !.op = "stop"]
  /\ UNCHANGED <<src_sock, src_poll_id, src_starts, src_tr, src_last_msg_num,
                 src_seen>>
  /\ UNCHANGED <<serverVars, srcConf, stats, cfgVars, snkVars>>

\* The transport calls of gst_srt_client_src_finalize.
FinalizeCalls(p, s) ==
  (IF p # SRT_ERROR
   THEN <<Call("srt_epoll_release", p, SRT_INVALID_SOCK, "", TRUE)>> ELSE <<>>)
  \o (IF s # SRT_INVALID_SOCK
      THEN <<Call("srt_close", SRT_ERROR, s, "", TRUE)>> ELSE <<>>)

\* The object is finalized when the last reference to the stopped element
\* goes; no method is called on it afterwards.
ClientSrcFinalize ==
  /\ src_phase = "stopped"
  /\ src_tr' = ApplyCalls(src_tr, FinalizeCalls(src_poll_id, src_sock))
  /\ src_call' = [NoCall EXCEPT !.op = "finalize", !.poll_in = src_poll_id,
                                !.calls = FinalizeCalls(src_poll_id, src_sock),
                                !.bad = OpBad(src_tr, FinalizeCalls(src_poll_id, src_sock)),
                                !.after = src_call.op]
  /\ src_poll_id' = SRT_ERROR
  /\ src_sock' = SRT_INVALID_SOCK
  /\ src_phase' = "finalized"
  /\ UNCHANGED <<src_starts, src_last_msg_num, src_seen>>
  /\ UNCHANGED <<serverVars, srcConf, stats, cfgVars, snkVars>>

(* ------------------------------------------------------------------ *)
(* gst_srt_client_src_fill                                             *)
(* ------------------------------------------------------------------ *)

\* Message numbers the transport reports in SRT_MSGCTRL.msgno (they start at 1).
MsgNos == {1, 5, 6, 9}

\* What srt_recvmsg2 / srt_recvmsg can return on socket s: SRT_ERROR, 0, or
\* the length of a message; on a socket that is not connected only SRT_ERROR.
RecvResults(s) ==
  IF s \in src_tr.connected THEN {SRT_ERROR, 0, 188, default_msg_size}
  ELSE {SRT_ERROR}

\* ret after the checks of recv_len.
FillFlowNoEos(recv_len) ==
  IF recv_len = SRT_ERROR THEN "GST_FLOW_ERROR" ELSE "GST_FLOW_OK"
FillFlow(recv_len) ==
  IF recv_len = SRT_ERROR THEN "GST_FLOW_ERROR"
  ELSE IF recv_len = 0 THEN "GST_FLOW_EOS"
  ELSE "GST_FLOW_OK"

\* if (priv->last_msg_num != 0 && (ctrl.msgno - priv->last_msg_num) > 1)
\*   GST_WARNING_OBJECT ("Dropped %d", ctrl.msgno - priv->last_msg_num - 1);
\* the number the diagnostic reports, -1 when there is none.
GapDroppedFromOne(last, msgno) ==
  IF last # 0 /\ msgno - last >= 1 THEN msgno - last - 1 ELSE -1
GapDropped(last, msgno) ==
  IF last # 0 /\ msgno - last > 1 THEN msgno - last - 1 ELSE -1

\* The copy at the head of the file: the srt_epoll_wait is commented out, so
\* fill goes straight to gst_buffer_map and srt_recvmsg2.
ClientSrcFill ==
  /\ src_variant = "current"
  /\ src_phase = "started"
  /\ \E map_ok \in BOOLEAN, recv_len \in RecvResults(src_sock), msgno \in MsgNos :
       LET got == map_ok /\ FillFlow(recv_len) = "GST_FLOW_OK" IN
       /\ src_call' =
            [NoCall EXCEPT
               !.op = "fill",
               !.recv_called = map_ok,
               !.recv_len = IF map_ok THEN recv_len ELSE -1,
               !.flow = IF map_ok THEN FillFlow(recv_len) ELSE "GST_FLOW_ERROR",
               !.size = IF got THEN recv_len ELSE -1,
               !.msgno = IF got THEN msgno ELSE -1,
               !.prev = src_seen,
               !.last_in = src_last_msg_num,
               !.diag = IF got THEN GapDropped(src_last_msg_num, msgno) ELSE -1]
       /\ src_last_msg_num' = IF got THEN msgno ELSE src_last_msg_num
       /\ src_seen' = IF got THEN msgno ELSE src_seen
  /\ UNCHANGED <<src_sock, src_poll_id, src_phase, src_starts, src_tr>>
  /\ UNCHANGED <<serverVars, srcConf, stats, cfgVars, snkVars>>

(* ------------------------------------------------------------------ *)
(* The older copy of the client source in gstsrtclientsrc.c            *)
(* ------------------------------------------------------------------ *)

\* The steps of the older gst_srt_client_src_start that can fail.
OldStartFailPoints == {"none", "to_native", "socket", "epoll_create", "connect"}
OldStartSteps == <<"parse_host", "to_native", "socket", "epoll_create", "connect", "none">>
OldRank(r) == CHOOSE i \in 1..Len(OldStartSteps) : OldStartSteps[i] = r

OldFailReason(host, fail) ==
  IF host \in {"NULL", "bad"} THEN "parse_host"
  ELSE IF fail # "none" THEN fail
  ELSE "none"

\* priv->sock and priv->poll_id when start stops at r.
OldSockAt(r, s_in, ns) ==
  IF OldRank(r) < OldRank("socket") THEN s_in
  ELSE IF r = "socket" THEN SRT_ERROR
  ELSE ns
OldPollAt(r, p_in, np) ==
  IF OldRank(r) < OldRank("epoll_create") THEN p_in
  ELSE IF r = "epoll_create" THEN SRT_ERROR
  ELSE np

\* The transport calls before `return TRUE` or `goto failed`.
OldBodyCalls(r, np, ns) ==
  (IF OldRank(r) >= OldRank("socket")
   THEN <<Call("srt_socket", SRT_ERROR, IF r = "socket" THEN SRT_ERROR ELSE ns,
               "", r # "socket")>>
   ELSE <<>>)
  \o (IF OldRank(r) > OldRank("socket")
      THEN <<Call("srt_setsockopt", SRT_ERROR, ns, "SRTO_SNDSYN=0", TRUE),
             Call("srt_setsockopt", SRT_ERROR, ns, "SRTO_TSBPDMODE=1", TRUE),
             Call("srt_setsockopt", SRT_ERROR, ns, "SRTO_SENDER=0", TRUE),
             Call("srt_setsockopt", SRT_ERROR, ns, "SRTO_TSBPDDELAY", TRUE),
             Call("srt_epoll_create", IF r = "epoll_create" THEN SRT_ERROR ELSE np,
                  SRT_INVALID_SOCK, "", r # "epoll_create")>>
      ELSE <<>>)
  \o (IF OldRank(r) > OldRank("epoll_create")
      THEN <<Call("srt_epoll_add_usock", np, ns, "OUT", TRUE),
             Call("srt_connect", SRT_ERROR, ns, "SRTS_CONNECTED", r # "connect")>>
      ELSE <<>>)

\* failed: of the older start.
OldFailedCalls(p, s) ==
  (IF p # SRT_ERROR
   THEN <<Call("srt_epoll_release", p, SRT_INVALID_SOCK, "", TRUE)>> ELSE <<>>)
  \o (IF s # SRT_INVALID_SOCK
      THEN <<Call("srt_close", SRT_ERROR, s, "", TRUE)>> ELSE <<>>)

OldClientSrcStart ==
  /\ src_variant = "older"
  /\ src_phase = "stopped"
  /\ src_starts < MaxStarts
  /\ \E host \in Hosts, fail \in OldStartFailPoints :
       LET r == OldFailReason(host, fail)
           np == Handle(src_starts + 1)
           ns == Handle(src_starts + 1)
           calls == OldBodyCalls(r, np, ns)
                    \o (IF r = "none" THEN <<>>
                        ELSE OldFailedCalls(OldPollAt(r, src_poll_id, np),
                                            OldSockAt(r, src_sock, ns)))
       IN /\ src_sock' = IF r = "none" THEN ns ELSE SRT_INVALID_SOCK
          /\ src_poll_id' = IF r = "none" THEN np ELSE SRT_ERROR
          /\ src_phase' = IF r = "none" THEN "started" ELSE "stopped"
          /\ src_tr' = ApplyCalls(src_tr, calls)
          /\ src_call' = [NoCall EXCEPT !.op = "start_older", !.fail = fail,
                            !.reason = r, !.poll_in = src_poll_id,
                            !.calls = calls, !.bad = OpBad(src_tr, calls)]
  /\ src_seen' = -1
  /\ src_starts' = src_starts + 1
  /\ UNCHANGED <<src_last_msg_num, serverVars, srcConf, stats, cfgVars, snkVars>>

\* The older gst_srt_client_src_unlock: three calls on the stored handles,
\* whatever they are, and no assignment.
OldUnlockCalls(p, s) ==
  <<Call("srt_epoll_remove_usock", p, s, "", TRUE),
    Call("srt_epoll_release", p, SRT_INVALID_SOCK, "", TRUE),
    Call("srt_close", SRT_ERROR, s, "", TRUE)>>

OldClientSrcUnlock ==
  /\ src_variant = "older"
  /\ src_phase # "finalized"
  /\ src_tr' = ApplyCalls(src_tr, OldUnlockCalls(src_poll_id, src_sock))
  /\ src_call' = [NoCall EXCEPT !.op = "unlock", !.poll_in = src_poll_id,
                                !.calls = OldUnlockCalls(src_poll_id, src_sock),
                                !.bad = OpBad(src_tr, OldUnlockCalls(src_poll_id, src_sock)),
                                !.after = src_call.op]
  /\ UNCHANGED <<src_sock, src_poll_id, src_phase, src_starts, src_last_msg_num,
                 src_seen>>
  /\ UNCHANGED <<serverVars, srcConf, stats, cfgVars, snkVars>>

\* The older gst_srt_client_src_stop: returns TRUE; called after unlock.
OldClientSrcStop ==
  /\ src_variant = "older"
  /\ src_phase = "started"
  /\ src_call.op = "unlock"
  /\ src_phase' = "stopped"
  /\ src_call' = [NoCall EXCEPT !.op = "stop"]
  /\ UNCHANGED <<src_sock, src_poll_id, src_starts, src_tr, src_last_msg_num,
                 src_seen>>
  /\ UNCHANGED <<serverVars, srcConf, stats, cfgVars, snkVars>>

\* What srt_epoll_wait can return in the older fill: "ready" when the epoll is
\* open, "timeout" when in addition the timeout is finite, "error" (not
\* SRT_ETIMEOUT) when the epoll id is not open.
OldWaitOutcomes ==
  IF src_poll_id \in src_tr.polls
  THEN {"ready"} \cup (IF src_poll_timeout >= 0 THEN {"timeout"} ELSE {})
  ELSE {"error"}

\* ret after srt_epoll_wait returned -1.
OldWaitFlow(w) == IF w = "error" THEN "GST_FLOW_ERROR" ELSE "GST_FLOW_OK"

\* The older gst_srt_client_src_fill: srt_epoll_wait, then gst_buffer_map and
\* srt_recvmsg.
OldClientSrcFill ==
  /\ src_variant = "older"
  /\ src_phase = "started"
  /\ \E w \in OldWaitOutcomes, map_ok \in BOOLEAN, recv_len \in RecvResults(src_sock) :
       LET called == w = "ready" /\ map_ok
           got == called /\ FillFlow(recv_len) = "GST_FLOW_OK" IN
       src_call' =
         [NoCall EXCEPT
            !.op = "fill",
            !.wait = w,
            !.recv_called = called,
            !.recv_len = IF called THEN recv_len ELSE -1,
            !.flow = IF w # "ready" THEN OldWaitFlow(w)
                     ELSE IF map_ok THEN FillFlow(recv_len) ELSE "GST_FLOW_ERROR",
            !.size = IF got THEN recv_len ELSE -1,
            !.last_in = src_last_msg_num]
  /\ UNCHANGED <<src_sock, src_poll_id, src_phase, src_starts, src_tr,
                 src_last_msg_num, src_seen>>
  /\ UNCHANGED <<serverVars, srcConf, stats, cfgVars, snkVars>>

(* ------------------------------------------------------------------ *)
(* Specification of the client source                                  *)
(* ------------------------------------------------------------------ *)

\* Either copy of the element, with the poll-timeout the user has set.
InitClientSrc ==
  /\ ServerInit
  /\ poll_timeout = SRT_DEFAULT_POLL_TIMEOUT
  /\ \E v \in SrcVariants, t \in PollTimeouts : SrcInitWith(v, t)
  /\ CfgInit
  /\ SnkInit

NextClientSrc ==
  \/ ClientSrcStart
  \/ ClientSrcUnlock
  \/ ClientSrcStop
  \/ ClientSrcFill
  \/ ClientSrcFinalize
  \/ OldClientSrcStart
  \/ OldClientSrcUnlock
  \/ OldClientSrcStop
  \/ OldClientSrcFill

SpecClientSrc == InitClientSrc /\ [][NextClientSrc]_vars

\* The current copy started over the inputs of the bind block, unlocked and
\* stopped.
NextConnectBind ==
  \/ ClientSrcStartWith(BindInputs, TRUE)
  \/ ClientSrcUnlock
  \/ ClientSrcStop

SpecConnectBind == Init /\ [][NextConnectBind]_vars

(* ------------------------------------------------------------------ *)
(* The configuration surface of the base sink and the base source      *)
(* ------------------------------------------------------------------ *)

\* A setter that stores the parsed URI before it looks at the scheme.
uri_set_uri_store_first(stored, str, has_error) ==
  LET parsed_uri == gst_uri_from_string(str)
  IN [ret |-> g_strcmp0(gst_uri_get_scheme(parsed_uri), SRT_URI_SCHEME) = 0,
      error |-> "NULL", uri |-> parsed_uri]

\* gst_srt_base_sink_uri_set_uri / gst_srt_base_src_uri_set_uri: the return
\* value, the GError set (when the caller passed a place for one) and the
\* value of self->uri afterwards.
uri_set_uri(stored, str, has_error) ==
  LET parsed_uri == gst_uri_from_string(str)
  IN IF g_strcmp0(gst_uri_get_scheme(parsed_uri), SRT_URI_SCHEME) # 0
     THEN [ret |-> FALSE,
           error |-> IF has_error THEN "GST_URI_ERROR_BAD_URI" ELSE "NULL",
           uri |-> stored]
     ELSE [ret |-> TRUE, error |-> "NULL", uri |-> parsed_uri]

\* The handler of "uri" calls the setter without a place for the error; the
\* URI handler interface passes one.
BaseSinkSetUri ==
  /\ \E str \in UriStrings, has_error \in BOOLEAN :
       LET r == uri_set_uri(sink_uri, str, has_error)
       IN /\ sink_uri' = r.uri
          /\ cfg_call' = [NoCfgCall EXCEPT !.op = "set_uri", !.elem = "sink",
                            !.arg = str, !.has_error = has_error,
                            !.ret = r.ret, !.error = r.error,
                            !.prior = gst_uri_to_string(sink_uri)]
  /\ UNCHANGED <<src_uri, key_length, src_cfg, serverVars, srcVars, stats, snkVars>>

\* gst_srt_base_sink_uri_get_uri.
BaseSinkGetUri ==
  /\ cfg_call' = [NoCfgCall EXCEPT !.op = "get_uri", !.elem = "sink",
                    !.got = gst_uri_to_string(sink_uri),
                    !.after_rejected = (cfg_call.op = "set_uri"
                                        /\ cfg_call.elem = "sink" /\ ~cfg_call.ret),
                    !.prior = cfg_call.prior]
  /\ UNCHANGED <<sink_uri, src_uri, key_length, src_cfg, serverVars, srcVars, stats, snkVars>>

BaseSrcSetUri ==
  /\ \E str \in UriStrings, has_error \in BOOLEAN :
       LET r == uri_set_uri(src_uri, str, has_error)
       IN /\ src_uri' = r.uri
          /\ cfg_call' = [NoCfgCall EXCEPT !.op = "set_uri", !.elem = "src",
                            !.arg = str, !.has_error = has_error,
                            !.ret = r.ret, !.error = r.error,
                            !.prior = gst_uri_to_string(src_uri)]
  /\ UNCHANGED <<sink_uri, key_length, src_cfg, serverVars, srcVars, stats, snkVars>>

\* gst_srt_base_src_uri_get_uri.
BaseSrcGetUri ==
  /\ cfg_call' = [NoCfgCall EXCEPT !.op = "get_uri", !.elem = "src",
                    !.got = gst_uri_to_string(src_uri),
                    !.after_rejected = (cfg_call.op = "set_uri"
                                        /\ cfg_call.elem = "src" /\ ~cfg_call.ret),
                    !.prior = cfg_call.prior]
  /\ UNCHANGED <<sink_uri, src_uri, key_length, src_cfg, serverVars, srcVars, stats, snkVars>>

\* A handler of "key-length" that stores whatever it is given.
set_key_length_unchecked(cur, k) == k

\* PROP_KEY_LENGTH of gst_srt_base_src_set_property: g_return_if_fail leaves
\* the handler before the assignment.
set_key_length(cur, k) ==
  IF ~(k = 16 \/ k = 24 \/ k = 32) THEN cur ELSE k

BaseSrcSetKeyLength ==
  /\ \E k \in KeyLengthInputs :
       /\ key_length' = set_key_length(key_length, k)
       /\ cfg_call' = [NoCfgCall EXCEPT !.op = "set_key_length", !.elem = "src",
                         !.key_in = k, !.key_prior = key_length]
  /\ UNCHANGED <<sink_uri, src_uri, src_cfg, serverVars, srcVars, stats, snkVars>>

\* The properties of the client source and the values written to them.
ClientSrcProps == {"poll-timeout", "bind-address", "bind-port", "rendez-vous"}
PropInputs(prop) ==
  IF prop = "poll-timeout" THEN {IntValue(t) : t \in PollTimeouts}
  ELSE IF prop = "bind-address" THEN {StrValue(a) : a \in BindAddresses}
  ELSE IF prop = "bind-port" THEN {IntValue(n) : n \in BindPorts}
  ELSE {BoolValue(b) : b \in BOOLEAN}

\* The value g_value_set_int / g_value_set_boolean stores for a C value of
\* the other type.
BoolAsInt(b) == IF b THEN 1 ELSE 0
IntAsBool(i) == i # 0

\* gst_srt_client_src_get_property: the GValue after the call.
get_property(priv, timeout, prop) ==
  IF prop = "poll-timeout" THEN IntValue(timeout)
  ELSE IF prop = "bind-port" THEN IntValue(BoolAsInt(priv.rendezvous))
  ELSE IF prop = "bind-address" THEN StrValue(priv.bind_address)
  ELSE BoolValue(IntAsBool(priv.bind_port))

ClientSrcGetProperty ==
  /\ \E prop \in ClientSrcProps :
       cfg_call' = [NoCfgCall EXCEPT !.op = "get_property", !.elem = "clientsrc",
                      !.prop = prop,
                      !.value = get_property(src_cfg, src_poll_timeout, prop)]
  /\ UNCHANGED <<sink_uri, src_uri, key_length, src_cfg, serverVars, srcVars,
                 stats, snkVars>>

\* gst_srt_client_src_set_property.
ClientSrcSetProperty ==
  /\ \E prop \in ClientSrcProps : \E v \in PropInputs(prop) :
       /\ src_poll_timeout' = IF prop = "poll-timeout" THEN v.int ELSE src_poll_timeout
       /\ src_cfg' =
            IF prop = "bind-address" THEN [src_cfg EXCEPT !.bind_address = v.str]
            ELSE IF prop = "bind-port" THEN [src_cfg EXCEPT !.bind_port = v.int]
            ELSE IF prop = "rendez-vous" THEN [src_cfg EXCEPT !.rendezvous = v.bool]
            ELSE src_cfg
       /\ cfg_call' = [NoCfgCall EXCEPT !.op = "set_property", !.elem = "clientsrc",
                         !.prop = prop, !.value = v]
  /\ UNCHANGED <<sink_uri, src_uri, key_length, serverVars, stats, snkVars,
                 src_sock, src_poll_id, src_phase, src_variant, src_last_msg_num,
                 src_seen, src_starts, src_tr, src_call>>

\* The properties of the client source, written and read in any order.
NextClientSrcProps ==
  \/ ClientSrcSetProperty
  \/ ClientSrcGetProperty

SpecClientSrcProps == Init /\ [][NextClientSrcProps]_vars

NextConfig ==
  \/ BaseSinkSetUri
  \/ BaseSinkGetUri
  \/ BaseSrcSetUri
  \/ BaseSrcGetUri
  \/ BaseSrcSetKeyLength

SpecConfig == Init /\ [][NextConfig]_vars

(* ------------------------------------------------------------------ *)
(* The client sink (gstsrtclientsink.c)                                *)
(* ------------------------------------------------------------------ *)

\* The steps of gst_srt_client_sink_start that can fail.
SinkStartFailPoints == {"none", "to_native", "socket", "epoll_create", "connect"}
SinkStartSteps == <<"address", "to_native", "socket", "epoll_create", "connect", "none">>
SinkRank(r) == CHOOSE i \in 1..Len(SinkStartSteps) : SinkStartSteps[i] = r

\* g_inet_socket_address_new_from_string takes a numeric address only.
NumericHosts == {SRT_DEFAULT_HOST}

SinkFailReason(uri, fail) ==
  IF uri.host \notin NumericHosts THEN "address"
  ELSE IF fail # "none" THEN fail
  ELSE "none"

\* priv->sock and priv->poll_id when start stops at r.
SinkSockAt(r, s_in, ns) ==
  IF SinkRank(r) < SinkRank("socket") THEN s_in
  ELSE IF r = "socket" THEN SRT_INVALID_SOCK
  ELSE ns
SinkPollAt(r, p_in, np) ==
  IF SinkRank(r) < SinkRank("epoll_create") THEN p_in
  ELSE IF r = "epoll_create" THEN SRT_ERROR
  ELSE np

\* The transport calls before `return TRUE` or `goto failed`.
SinkBodyCalls(r, np, ns) ==
  (IF SinkRank(r) >= SinkRank("socket")
   THEN <<Call("srt_socket", SRT_ERROR, IF r = "socket" THEN SRT_INVALID_SOCK ELSE ns,
               "", r # "socket")>>
   ELSE <<>>)
  \o (IF SinkRank(r) > SinkRank("socket")
      THEN <<Call("srt_setsockopt", SRT_ERROR, ns, "SRTO_SNDSYN=0", TRUE),
             Call("srt_epoll_create", IF r = "epoll_create" THEN SRT_ERROR ELSE np,
                  SRT_INVALID_SOCK, "", r # "epoll_create")>>
      ELSE <<>>)
  \o (IF SinkRank(r) > SinkRank("epoll_create")
      THEN <<Call("srt_epoll_add_usock", np, ns, "OUT", TRUE),
             Call("srt_connect", SRT_ERROR, ns, "SRTS_CONNECTED", r # "connect")>>
      ELSE <<>>)

\* failed: of gst_srt_client_sink_start.
SinkFailedCalls(p, s) ==
  (IF p # SRT_ERROR
   THEN <<Call("srt_epoll_release", p, SRT_INVALID_SOCK, "", TRUE)>> ELSE <<>>)
  \o (IF s # SRT_INVALID_SOCK
      THEN <<Call("srt_close", SRT_ERROR, s, "", TRUE)>> ELSE <<>>)

ClientSinkStart ==
  /\ snk_phase = "stopped"
  /\ \E fail \in SinkStartFailPoints :
       LET r == SinkFailReason(sink_uri, fail)
           np == Handle(1)
           ns == Handle(1)
           calls == SinkBodyCalls(r, np, ns)
                    \o (IF r = "none" THEN <<>>
                        ELSE SinkFailedCalls(SinkPollAt(r, snk_poll_id, np),
                                             SinkSockAt(r, snk_sock, ns)))
       IN /\ snk_sock' = IF r = "none" THEN ns ELSE SRT_INVALID_SOCK
          /\ snk_poll_id' = IF r = "none" THEN np ELSE SRT_ERROR
          /\ snk_phase' = IF r = "none" THEN "started" ELSE "stopped"
          /\ snk_tr' = ApplyCalls(snk_tr, calls)
          /\ snk_call' = [NoSinkCall EXCEPT !.op = "start", !.reason = r,
                            !.calls = calls, !.bad = OpBad(snk_tr, calls)]
  /\ UNCHANGED <<serverVars, srcVars, stats, cfgVars>>

\* What srt_sendmsg2 can return for a message of the given size: SRT_ERROR,
\* or the size when the socket is connected.
SendSizes == {188, default_msg_size}
SendResults(s, size) ==
  IF s \in snk_tr.connected THEN {SRT_ERROR, size} ELSE {SRT_ERROR}

\* A send_buffer that keeps a failed send to itself.
client_sink_send_buffer_silent(send_ret) ==
  [sends |-> 1, ret |-> TRUE, error |-> "none"]

\* gst_srt_client_sink_send_buffer: one srt_sendmsg2; on SRT_ERROR it posts
\* the RESOURCE/WRITE error and returns FALSE.
client_sink_send_buffer(send_ret) ==
  [sends |-> 1,
   ret |-> send_ret # SRT_ERROR,
   error |-> IF send_ret = SRT_ERROR THEN "RESOURCE_WRITE" ELSE "none"]

\* gst_srt_base_sink_render with the send_buffer of the client sink.
ClientSinkRender ==
  /\ snk_phase = "started"
  /\ \E map_ok \in BOOLEAN, size \in SendSizes :
       \E send_ret \in SendResults(snk_sock, size) :
         LET r == client_sink_send_buffer(send_ret) IN
         snk_call' =
           IF map_ok
           THEN [NoSinkCall EXCEPT !.op = "render", !.mapped = TRUE,
                   !.sends = r.sends, !.send_ok = send_ret # SRT_ERROR,
                   !.error = r.error, !.flow = RenderReturn(r.ret)]
           ELSE [NoSinkCall EXCEPT !.op = "render", !.error = "RESOURCE_READ",
                   !.flow = "GST_FLOW_ERROR"]
  /\ UNCHANGED <<snk_sock, snk_poll_id, snk_phase, snk_tr>>
  /\ UNCHANGED <<serverVars, srcVars, stats, cfgVars>>

\* gst_srt_client_sink_stop.
SinkStopCalls(p, s) ==
  (IF p # SRT_ERROR
   THEN <<Call("srt_epoll_remove_usock", p, s, "", TRUE),
          Call("srt_epoll_release", p, SRT_INVALID_SOCK, "", TRUE)>>
   ELSE <<>>)
  \o (IF s # SRT_INVALID_SOCK
      THEN <<Call("srt_close", SRT_ERROR, s, "", TRUE)>> ELSE <<>>)

ClientSinkStop ==
  /\ snk_phase = "started"
  /\ snk_tr' = ApplyCalls(snk_tr, SinkStopCalls(snk_poll_id, snk_sock))
  /\ snk_call' = [NoSinkCall EXCEPT !.op = "stop",
                    !.calls = SinkStopCalls(snk_poll_id, snk_sock),
                    !.bad = OpBad(snk_tr, SinkStopCalls(snk_poll_id, snk_sock))]
  /\ snk_sock' = SRT_INVALID_SOCK
  /\ snk_poll_id' = SRT_ERROR
  /\ snk_phase' = "stopped"
  /\ UNCHANGED <<serverVars, srcVars, stats, cfgVars>>

\* The client sink with its "uri" set while it is stopped or running.
NextClientSink ==
  \/ BaseSinkSetUri
  \/ ClientSinkStart
  \/ ClientSinkRender
  \/ ClientSinkStop

SpecClientSink == Init /\ [][NextClientSink]_vars

(* ------------------------------------------------------------------ *)
(* gst_srt_server_sink_unlock / gst_srt_server_sink_unlock_stop        *)
(* ------------------------------------------------------------------ *)

\* The framework calls unlock when a flush starts on a started sink and
\* unlock_stop when it ends.
Unlock ==
  /\ phase = "started"
  /\ spc = "idle"
  /\ ~cancelled
  /\ cancelled' = TRUE
  /\ UNCHANGED <<sock, poll_id, poll_timeout, thread, registryVars, phase, tpc,
                 rpc, spc, transportVars, signalVars, cycleVars, stopHist, bpHist,
                 srcVars, stats, cfgVars, snkVars, iter, lock, cycle_in, bp_check>>

UnlockStop ==
  /\ phase = "started"
  /\ spc = "idle"
  /\ cancelled
  /\ cancelled' = FALSE
  /\ UNCHANGED <<sock, poll_id, poll_timeout, thread, registryVars, phase, tpc,
                 rpc, spc, transportVars, signalVars, cycleVars, stopHist, bpHist,
                 srcVars, stats, cfgVars, snkVars, iter, lock, cycle_in, bp_check>>

(* ------------------------------------------------------------------ *)
(* Specifications of the server                                        *)
(* ------------------------------------------------------------------ *)

Thread(maxc) == ThreadTop \/ ThreadWait(maxc) \/ ThreadAccept(maxc) \/ ThreadPush
Stop == StopCancel \/ StopEpoll \/ StopClose \/ StopJoin \/ StopDrain

Next ==
  \/ Start
  \/ Thread(MaxClients)
  \/ SendBufferLive(FALSE)
  \/ SendBufferPop
  \/ Stop

Spec == Init /\ [][Next]_vars

\* The same machine with the history of the failed checks recorded.
NextBP ==
  \/ Start
  \/ Thread(FewClients)
  \/ SendBufferLive(TRUE)
  \/ SendBufferPop
  \/ Stop

SpecBP == Init /\ [][NextBP]_vars

\* The same machine under the scheduling the code relies on: the accept
\* thread runs, a call that has begun goes on, and the framework goes on
\* calling render until it calls stop.
NextFair ==
  \/ Start
  \/ Thread(FewClients)
  \/ SendBufferLive(FALSE)
  \/ SendBufferPop
  \/ Stop

FairSpec ==
  /\ Init /\ [][NextFair]_vars
  /\ WF_vars(Thread(FewClients))
  /\ WF_vars(SendBufferPop)
  /\ WF_vars(StopEpoll \/ StopClose \/ StopJoin \/ StopDrain)
  /\ WF_vars(SendBufferLive(FALSE) \/ StopCancel)

\* The server started again after stop.
NextRestart ==
  \/ Start
  \/ Thread(FewClients)
  \/ SendBufferLive(FALSE)
  \/ SendBufferPop
  \/ Stop
  \/ StartAgain

SpecRestart == Init /\ [][NextRestart]_vars

\* The server with an application that may have connected a handler.
NextHandler ==
  \/ Start
  \/ Thread(FewClients)
  \/ SendBufferLive(FALSE)
  \/ SendBufferPopWith(Handlers)
  \/ Stop

SpecHandler == Init /\ [][NextHandler]_vars

\* The server with flushes, under the same scheduling.
NextUnlock ==
  \/ Start
  \/ Thread(FewClients)
  \/ SendBufferLive(FALSE)
  \/ SendBufferPop
  \/ Stop
  \/ Unlock
  \/ UnlockStop

FairSpecUnlock ==
  /\ Init /\ [][NextUnlock]_vars
  /\ WF_vars(Thread(FewClients))
  /\ WF_vars(SendBufferPop)
  /\ WF_vars(StopEpoll \/ StopClose \/ StopJoin \/ StopDrain)

(* ------------------------------------------------------------------ *)
(* can_client_recv on the whole range of int                           *)
(* ------------------------------------------------------------------ *)

\* The largest and the smallest value of the int that srt_getsockflag fills.
INT_MAX == (2^30 - 1) + 2^30
INT_MIN == (-INT_MAX) - 1

\* Values of num_bytes_unacknowledged: around 0, around the threshold
\* SRT_SEND_BUFFER_SIZE - default_msg_size, around the first value for which
\* the addition leaves the range of int, and at the two ends of the range.
UnackedInts ==
  (0..Near)
  \cup ((SRT_SEND_BUFFER_SIZE - default_msg_size - Near)
         ..(SRT_SEND_BUFFER_SIZE - default_msg_size + Near))
  \cup ((INT_MAX - default_msg_size - Near)..(INT_MAX - default_msg_size + Near))
  \cup {INT_MAX - k : k \in 0..Near}
  \cup {INT_MIN + k : k \in 0..Near}

\* What `num_bytes_unacknowledged + default_msg_size < send_buffer_size` can
\* evaluate to in int arithmetic.  When the sum is above INT_MAX (written
\* here without forming the sum) the addition overflows: a build that wraps
\* compares a negative sum and answers TRUE, a build that folds the comparison
\* answers FALSE.
can_client_recv_int(unacked) ==
  IF unacked > INT_MAX - default_msg_size THEN BOOLEAN
  ELSE {can_client_recv(unacked)}

CanClientRecv ==
  /\ \E unacked \in UnackedInts : \E r \in can_client_recv_int(unacked) :
       bp_check' = [applied |-> TRUE, unacked |-> unacked, result |-> r]
  /\ UNCHANGED <<privVars, registryVars, phase, tpc, rpc, spc, transportVars,
                 signalVars, cycleVars, stopHist, bpHist, srcVars, stats,
                 cfgVars, snkVars, iter, lock, cycle_in>>

NextCanRecv == CanClientRecv

SpecCanRecv == Init /\ [][NextCanRecv]_vars

(* ------------------------------------------------------------------ *)
(* The "stats" property of the server                                  *)
(* ------------------------------------------------------------------ *)

\* gst_srt_base_sink_get_stats for a client record: a report tagged with the
\* address of the client.
gst_srt_base_sink_get_stats(c) == [sockaddr |-> c]

\* The reports a walk over nodes that were freed can produce.
RECURSIVE ReportSeqs(_)
ReportSeqs(n) ==
  IF n = 0 THEN {<<>>}
  ELSE ReportSeqs(n - 1)
       \cup {Append(s, gst_srt_base_sink_get_stats(c)) :
               s \in {t \in ReportSeqs(n - 1) : Len(t) = n - 1}, c \in ClientIds}

\* The loop of PROP_STATS over priv->clients.  After stop freed the nodes of a
\* list that was not empty, priv->clients still points at them.
StatsOutcomes ==
  IF list_state = "valid" \/ clients = <<>>
  THEN {[i \in 1..Len(clients) |-> gst_srt_base_sink_get_stats(clients[i])]}
  ELSE ReportSeqs(MaxClients)

\* PROP_STATS of gst_srt_server_sink_get_property, under the object lock.
GetStats ==
  /\ LockFree(lock)
  /\ spc \in {"idle", "done"}
  /\ \E r \in StatsOutcomes :
       stats' = [read |-> TRUE, reports |-> r, live |-> Live, list |-> list_state,
                 rpc |-> rpc, closed |-> {c \in ClientIds : closed[c] > 0}]
  /\ UNCHANGED <<privVars, registryVars, phase, tpc, rpc, spc, transportVars,
                 signalVars, cycleVars, stopHist, bpHist, srcVars, cfgVars, snkVars,
                 iter, lock, cycle_in, bp_check>>

\* The server with reads of "stats" between the calls of the framework.
NextStats ==
  \/ Start
  \/ Thread(FewClients)
  \/ SendBufferLive(FALSE)
  \/ SendBufferPop
  \/ Stop
  \/ GetStats

SpecStats == Init /\ [][NextStats]_vars

(* ------------------------------------------------------------------ *)
(* Properties of the server                                            *)
(* ------------------------------------------------------------------ *)

\* C1: no client record is at the same time in the pending queue and in the
\* live client list, in any state reached by interleaving the accept thread,
\* the delivery path and stop.
C1_PendingLiveDisjoint == Range(clients) \cap Range(pending_clients) = {}

\* A delivery is draining the queue while a client is live and another pending.
C1_Witness == rpc = "drain" /\ Live # {} /\ Pending # {}

\* C2: client-removed is emitted at most once per client, and never for a
\* client for which client-added was not emitted.
C2_RemovedAtMostOnce ==
  \A c \in ClientIds : removed[c] <= 1 /\ (removed[c] > 0 => added[c] > 0)

\* Stop has returned after one client was evicted by a delivery and another
\* was removed by stop itself.
C2_Witness ==
  /\ spc = "done"
  /\ stop_emitted = 1
  /\ \E c \in ClientIds : removed[c] = 1 /\ boot[c] = "ok" /\ c \notin Range(clients)

\* C3: when stop has returned, it has emitted one client-removed per live and
\* per pending client, every accepted client socket and the listening socket
\* are closed exactly once, the epoll is released, the accept thread is
\* joined, and no call was made on a handle that was not open.
C3_StopReleasesAll ==
  spc = "done" =>
    /\ stop_emitted = stop_live + stop_pending
    /\ \A c \in ClientIds : added[c] = closed[c] /\ added[c] = removed[c]
    /\ lsock_state = "closed"
    /\ lpoll_state = "released"
    /\ tpc = "joined" /\ thread = "NULL"
    /\ bad_calls = {}

\* Stop has returned from a session that had a live and a pending client.
C3_Witness == spc = "done" /\ stop_live >= 1 /\ stop_pending >= 1

\* C4 (as claimed): a backpressure eviction happens exactly when the current
\* run of consecutive failed checks reaches MAX_SEND_FAILS.
C4_EvictedOnConsecutiveFails ==
  \A c \in ClientIds : bp_evict_run[c] \in {-1, MAX_SEND_FAILS}

\* C5: the send operation never reports failure, and in a delivery cycle every
\* client that was live at its start and is not itself evicted in it has been
\* sent the unit.
C5_FailureIsolated ==
  /\ last_ret # "GST_FLOW_ERROR"
  /\ rpc = "drain" => (cycle_live \cap Live) \subseteq unit_sent

\* A cycle, after an earlier one returned, evicted one client and sent the
\* unit to another.
C5_Witness ==
  /\ rpc = "drain"
  /\ last_ret = "GST_FLOW_OK"
  /\ \E c \in cycle_live : c \notin Live /\ removed[c] = 1
  /\ \E c \in cycle_live : c \in Live /\ c \in unit_sent

\* C6: a client is in the live list only if its header and first unit were
\* both sent; if either send failed, client-removed was emitted, its socket
\* was closed, and it is not in the live list.
C6_PromotionNeedsBothSends ==
  \A c \in ClientIds :
    /\ c \in Range(clients) => boot[c] = "ok"
    /\ boot[c] \in {"hdr_fail", "unit_fail"} =>
         removed[c] = 1 /\ closed[c] = 1 /\ c \notin Range(clients)

\* One client was discarded at its first unit while another was promoted.
C6_Witness ==
  /\ \E c \in ClientIds : boot[c] = "unit_fail"
  /\ \E c \in ClientIds : boot[c] = "ok" /\ c \in Live

\* C7: every pending client eventually leaves the pending queue, and once
\* stop has been called every client that was added is eventually removed
\* and neither pending nor live.
C7_PendingResolved ==
  \A c \in ClientIds :
    /\ (c \in Pending) ~> (c \notin Pending)
    /\ (spc # "idle" /\ added[c] > 0) ~> (removed[c] = 1 /\ c \notin Live \cup Pending)

\* Stop has returned after draining a client that was still pending.
C7_Witness == spc = "done" /\ stop_pending = 1 /\ removed[1] = 1

\* C8: when gst_srt_client_connect_full fails, at whatever step, it has
\* released each epoll id and closed each socket it created exactly once, has
\* released or closed nothing else, leaves no handle open, returns
\* SRT_INVALID_SOCK, leaves *poll_id at SRT_ERROR and *socket_address cleared.
C8_FailedConnectRollsBack ==
  (src_call.op = "start" /\ src_call.reason # "none") =>
    LET calls == src_call.calls
        N(f, p, s) == Cardinality({i \in DOMAIN calls :
                        calls[i].f = f /\ calls[i].poll = p /\ calls[i].sock = s})
        created_polls == {calls[i].poll : i \in {j \in DOMAIN calls :
                           calls[j].f = "srt_epoll_create" /\ calls[j].ok}}
        created_socks == {calls[i].sock : i \in {j \in DOMAIN calls :
                           calls[j].f = "srt_socket" /\ calls[j].ok}}
    IN /\ \A p \in created_polls : N("srt_epoll_release", p, SRT_INVALID_SOCK) = 1
       /\ \A s \in created_socks : N("srt_close", SRT_ERROR, s) = 1
       /\ \A i \in DOMAIN calls :
            /\ calls[i].f = "srt_epoll_release" => calls[i].poll \in created_polls
            /\ calls[i].f = "srt_close" => calls[i].sock \in created_socks
       /\ src_tr.polls = {} /\ src_tr.socks = {} /\ src_tr.bad = {}
       /\ src_call.ret = SRT_INVALID_SOCK
       /\ src_call.poll_out = SRT_ERROR
       /\ src_call.addr_out = "NULL"
       /\ src_sock = SRT_INVALID_SOCK /\ src_poll_id = SRT_ERROR

\* A second start failed at the state check, after its epoll and its socket
\* were created and the socket was bound.
C8_Witness ==
  /\ src_call.op = "start" /\ src_call.reason = "state" /\ src_starts = 2
  /\ \E i \in DOMAIN src_call.calls : src_call.calls[i].f = "srt_bind"
  /\ \E i \in DOMAIN src_call.calls : src_call.calls[i].f = "srt_close"

\* C9 (as claimed): when gst_srt_client_connect_full returns a socket, the
\* socket is connected and is registered with the returned epoll id for the
\* events of the role.
C9_ValidReturnIsRegistered ==
  (src_call.op = "start" /\ src_call.ret # SRT_INVALID_SOCK) =>
    /\ src_call.ret \in src_tr.connected
    /\ [poll |-> src_call.poll_out, sock |-> src_call.ret,
        events |-> Events(src_call.is_sender)] \in src_tr.reg

\* C10: once stop has set the flag, released the epoll and closed the
\* listening socket, the accept thread leaves its loop and the join returns.
C10_JoinReturns == (spc = "closed") ~> (spc = "joined" /\ tpc = "joined")

\* The join has returned in a session with the infinite poll timeout.
C10_Witness ==
  spc = "joined" /\ tpc = "joined" /\ poll_timeout = SRT_DEFAULT_POLL_TIMEOUT

\* C12 (as claimed): over the lifecycle calls of the server, no
\* srt_epoll_release or srt_close is issued on a handle that is not open
\* (never created, or already released or closed), and the listening socket
\* is no longer registered when it is closed.
C12_ListenerReleasedOnce ==
  /\ bad_calls = {}
  /\ lsock_state = "closed" => ~registered

\* C21 (as claimed): while the server is started and not cancelled, also
\* after unlock and unlock_stop, a client that connects is eventually taken by
\* the accept thread (accepted with client-added emitted and the record
\* pushed, or refused by srt_accept), unless a flush or stop begins first.
C21_ResumesAccepting ==
  (phase = "started" /\ spc = "idle" /\ ~cancelled /\ attempts < FewClients)
    ~> (attempts = FewClients \/ spc # "idle" \/ cancelled)

\* C22 (as claimed): reading poll-timeout, bind-address, bind-port or
\* rendez-vous of the client source returns the value last written to that
\* property (its default before any write).
C22_PropertyReadsOwnValue ==
  (cfg_call.op = "get_property" /\ cfg_call.elem = "clientsrc") =>
    cfg_call.value =
      (IF cfg_call.prop = "poll-timeout" THEN IntValue(src_poll_timeout)
       ELSE IF cfg_call.prop = "bind-address" THEN StrValue(src_cfg.bind_address)
       ELSE IF cfg_call.prop = "bind-port" THEN IntValue(src_cfg.bind_port)
       ELSE BoolValue(src_cfg.rendezvous))

\* C23 (as claimed): after a failed start of the server the listening socket
\* and the epoll this start created are closed and released, no srt_close or
\* srt_epoll_release was issued on a handle that was never created, and no
\* accept thread is running.
C23_FailedStartRollsBack ==
  phase = "start_failed" =>
    /\ lsock_state # "open"
    /\ lpoll_state # "open"
    /\ bad_calls = {}
    /\ tpc = "none"

\* C24 (as claimed): when srt_epoll_wait times out and the server is not
\* cancelled, the iteration makes no srt_accept call and creates no record.
C24_TimeoutSkipsAccept ==
  iter.wait = "timeout" => (tpc # "accept" /\ iter.accept = "none")

\* C25: an error of srt_epoll_wait that is not a timeout is reported and sends
\* the loop back to its head without an accept; the accept thread has left
\* its loop only when the cancellation flag is set.
C25_WaitErrorLoopsOn ==
  /\ iter.wait = "error" =>
       (iter.reported /\ tpc = "top" /\ iter.accept = "none")
  /\ tpc \in {"exit", "joined"} => cancelled

\* A wait error in a server that is not cancelled.
C25_Witness ==
  iter.wait = "error" /\ ~cancelled /\ phase = "started" /\ tpc = "top"

\* C26: the step in which srt_accept fails emits no client-added, pushes
\* nothing, closes no socket, leaves the pending queue and the live list as
\* they were, and goes back to the head of the loop.
C26_FailedAcceptNoEffect ==
  [][(tpc = "accept" /\ iter'.accept \in {"invalid", "closed"}) =>
       /\ added' = added
       /\ pending_clients' = pending_clients
       /\ clients' = clients
       /\ closed' = closed
       /\ removed' = removed
       /\ tpc' = "top"]_vars

\* A refused connection attempt: nothing recorded for the client.
C26_Witness ==
  /\ iter.accept = "invalid"
  /\ tpc = "top"
  /\ attempts = 1
  /\ added[1] = 0
  /\ closed[1] = 0
  /\ pending_clients = <<>>

\* C27: client-added of a client is emitted before its record is in the
\* pending queue, so no client has more client-removed than client-added
\* events, whatever the delivery path and stop do in between.
C27_AddedBeforeRemoved ==
  \A c \in ClientIds :
    /\ removed[c] <= added[c]
    /\ c \in Pending \cup Live => added[c] = 1

\* A client discarded at promotion while the accept thread runs on.
C27_Witness ==
  /\ boot[1] = "hdr_fail"
  /\ added[1] = 1
  /\ removed[1] = 1
  /\ tpc \in {"wait", "accept", "push"}

\* C28: a live client for which the send of the unit was attempted and
\* failed in a delivery cycle is no longer in the live list after that cycle,
\* has had one client-removed and one srt_close, whatever its failure counter
\* was at the beginning of the cycle.
C28_SendFailureEvicts ==
  \A c \in ClientIds :
    (/\ cycle_in[c].live
     /\ ~EvictsForBackpressure(cycle_in[c].fails, cycle_in[c].unacked)
     /\ ~cycle_in[c].send)
    => (c \notin Live /\ removed[c] = 1 /\ closed[c] = 1)

\* A client with room in its buffer and a failure counter of 0 whose send
\* failed.
C28_Witness ==
  /\ cycle_in[1].live
  /\ cycle_in[1].fails = 0
  /\ can_client_recv(cycle_in[1].unacked)
  /\ ~cycle_in[1].send
  /\ rpc = "drain"
  /\ removed[1] = 1

\* C29 (as claimed): for every int value of the unacknowledged bytes,
\* can_client_recv answers TRUE exactly when unacknowledged + 1316 < 1048576,
\* that is when unacknowledged < 1048576 - 1316.
C29_BackpressureThreshold ==
  bp_check.applied =>
    (bp_check.result = (bp_check.unacked < 1048576 - 1316))

\* C30: the live list and the failure counters change only in a step of the
\* delivery path that holds the object lock or in the drain of stop, which
\* takes it; no step of the accept thread changes them; and a read of "stats"
\* never happens inside a delivery cycle.
C30_ListUnderLock ==
  /\ [](stats.read => stats.rpc = "idle")
  /\ [][(clients' # clients \/ num_send_fails' # num_send_fails
          \/ list_state' # list_state)
        => (lock = "render" \/ lock' = "render" \/ (spc = "joined" /\ spc' = "done"))]_vars
  /\ [][tpc' # tpc => (clients' = clients /\ num_send_fails' = num_send_fails
                       /\ list_state' = list_state)]_vars

\* A read of "stats" between two delivery cycles, with one live client and
\* the accept thread running.
C30_Witness ==
  /\ stats.read
  /\ stats.rpc = "idle"
  /\ stats.list = "valid"
  /\ Len(stats.reports) = 1
  /\ lock = "none"
  /\ tpc \in {"wait", "accept", "push"}

\* C31: pending clients leave the pending queue in the order the accept
\* thread pushed them (the accept thread numbers them in that order), also
\* when a push happens during the drain: a popped client is no longer in the
\* queue and was pushed before every client still in it, and every pushed
\* client is in the queue, was popped by a delivery cycle, or was drained by
\* stop.
C31_PendingFifo ==
  /\ \A c \in ClientIds :
       boot[c] # "none" => (c \notin Pending /\ \A d \in Pending : c < d)
  /\ \A i, j \in 1..Len(pending_clients) :
       i < j => pending_clients[i] < pending_clients[j]
  /\ \A c \in ClientIds :
       (added[c] > 0 /\ ~(tpc = "push" /\ c = attempts))
       => \/ c \in Pending
          \/ boot[c] # "none"
          \/ (spc = "done" /\ removed[c] = 1)

\* The first client was popped, and the second was pushed while the
\* delivery path was draining the queue.
C31_Witness ==
  /\ rpc = "drain"
  /\ boot[1] # "none"
  /\ iter.during = "drain"
  /\ pending_clients = <<2>>

\* C32: the drain of stop begins only after the accept thread has been
\* joined; when stop has returned, every client the accept thread announced,
\* also one accepted after the cancellation flag was set, has one
\* client-removed and one close, the pending queue is empty, and no
\* client-added is emitted afterwards.
C32_StopDrainsAfterJoin ==
  /\ [](spc = "done" =>
         /\ tpc = "joined"
         /\ pending_clients = <<>>
         /\ \A c \in ClientIds :
              added[c] > 0 => (removed[c] = 1 /\ closed[c] = 1))
  /\ [][spc' = "done" => (tpc = "joined" /\ added' = added)]_vars

\* Stop has returned after draining from the pending queue a client that
\* was accepted after the cancellation flag was set.
C32_Witness ==
  /\ spc = "done"
  /\ iter.late
  /\ stop_pending >= 1
  /\ removed[attempts] = 1

\* C33 (as claimed): no transport call is made on the record or the socket
\* of a client after it was evicted or drained by stop: a client whose socket
\* was closed is never in the live list, is sent no unit, is closed once, and
\* a read of "stats" queries no client whose socket was closed before.
C33_NoUseAfterEviction ==
  /\ \A c \in ClientIds :
       closed[c] > 0 => (c \notin Live /\ c \notin unit_sent /\ closed[c] = 1)
  /\ stats.read =>
       \A i \in 1..Len(stats.reports) : stats.reports[i].sockaddr \notin stats.closed

\* C35: the failure counter of every client in the live list is in
\* 0..MAX_SEND_FAILS-1 and that of every pending client is 0; the delivery
\* cycle in which a counter reaches MAX_SEND_FAILS removes the client.
C35_CounterBounded ==
  /\ \A c \in Live : num_send_fails[c] \in 0..(MAX_SEND_FAILS - 1)
  /\ \A c \in Pending : num_send_fails[c] = 0
  /\ \A c \in ClientIds :
       (cycle_in[c].live /\ rpc = "drain"
        /\ FailsAfter(cycle_in[c].fails, cycle_in[c].unacked) = MAX_SEND_FAILS)
       => c \notin Live

\* A client that entered a delivery cycle with MAX_SEND_FAILS-1 failed
\* checks, failed one more and was removed by that cycle.
C35_Witness ==
  /\ rpc = "drain"
  /\ cycle_in[1].live
  /\ cycle_in[1].fails = MAX_SEND_FAILS - 1
  /\ ~can_client_recv(cycle_in[1].unacked)
  /\ 1 \notin Live
  /\ removed[1] = 1

\* C36: in a delivery cycle a live client whose check fails while its
\* counter stays below MAX_SEND_FAILS is sent the unit (and stays live when
\* the send succeeds); a client whose counter reaches MAX_SEND_FAILS in the
\* cycle is not sent the unit.
C36_TrippedStillSent ==
  \A c \in ClientIds :
    (rpc = "drain" /\ cycle_in[c].live /\ ~can_client_recv(cycle_in[c].unacked)) =>
      IF cycle_in[c].fails + 1 < MAX_SEND_FAILS
      THEN /\ cycle_in[c].send => (c \in unit_sent /\ c \in Live)
           /\ ~cycle_in[c].send => (c \notin unit_sent /\ c \notin Live)
      ELSE c \notin unit_sent /\ c \notin Live

\* A client whose check failed for the first time and which was sent the unit
\* and kept.
C36_Witness ==
  /\ rpc = "drain"
  /\ cycle_in[1].live
  /\ ~can_client_recv(cycle_in[1].unacked)
  /\ cycle_in[1].fails = 0
  /\ cycle_in[1].send
  /\ 1 \in unit_sent
  /\ 1 \in Live
  /\ num_send_fails[1] = 1

\* C37: in a delivery cycle each client is sent the unit at most once; a
\* client popped from the pending queue is sent the headers first and the
\* unit after them, a client that was live when the cycle began is sent no
\* headers, and the unit reaches only clients whose headers were sent.
C37_HeadersThenUnitOnce ==
  \A c \in ClientIds :
    /\ cycle_in[c].log \in {<<>>, <<"unit">>, <<"hdr">>, <<"hdr", "unit">>}
    /\ cycle_in[c].live => cycle_in[c].log \in {<<>>, <<"unit">>}
    /\ (~cycle_in[c].live /\ cycle_in[c].log # <<>>) => Head(cycle_in[c].log) = "hdr"
    /\ c \in unit_sent => boot[c] = "ok"

\* A client promoted in the cycle that is under way: it was sent the
\* headers and then the unit, once.
C37_Witness ==
  /\ rpc = "drain"
  /\ ~cycle_in[1].live
  /\ cycle_in[1].log = <<"hdr", "unit">>
  /\ boot[1] = "ok"
  /\ 1 \in Live
  /\ 1 \in unit_sent

\* C38 (as claimed): after a start that follows a stop the session is like a
\* fresh one: the cancellation flag is clear, the pending queue is a valid
\* structure, the live list is valid and empty, and the accept thread has
\* not left its loop.
C38_RestartIsFresh ==
  phase = "restarted" =>
    /\ ~cancelled
    /\ queue_state = "valid"
    /\ list_state = "valid" /\ clients = <<>>
    /\ tpc \in {"top", "wait", "accept", "push"}

\* C39 (as claimed): the handlers of client-removed run without the lock of
\* the object held: the thread of the delivery path is never inside a handler
\* waiting for the lock while it holds that lock itself.
C39_HandlerRunsUnlocked ==
  ~(rpc = "handler_lock" /\ lock = "render")

\* C15 (as claimed): whenever "stats" is read, the array holds exactly one
\* report per client in the live list at that time, and no other report.
C15_StatsMatchLive ==
  stats.read =>
    /\ Len(stats.reports) = Cardinality(stats.live)
    /\ {stats.reports[i].sockaddr : i \in 1..Len(stats.reports)} = stats.live

(* ------------------------------------------------------------------ *)
(* Properties of the client source                                     *)
(* ------------------------------------------------------------------ *)

\* C34: when gst_srt_client_connect_full gets as far as the bind block
\* without failing inside it before srt_bind, it calls srt_bind exactly when
\* bind_address, bind_port or rendezvous is set, on "0.0.0.0" when no bind
\* address was given and on the given one otherwise, on the target port when
\* rendezvous is set and on bind_port otherwise, and before srt_connect; it
\* never calls srt_bind when none of the three is set.
C34_BindPolicy ==
  (src_call.op = "start" /\ src_call.bind.tracked) =>
    LET calls == src_call.calls
        b == src_call.bind
        binds == {i \in DOMAIN calls : calls[i].f = "srt_bind"}
        connects == {i \in DOMAIN calls : calls[i].f = "srt_connect"}
        wanted == b.in_address # "NULL" \/ b.in_port # 0 \/ src_call.rendezvous
    IN /\ ~wanted => binds = {}
       /\ Cardinality(binds) <= 1
       /\ Rank(src_call.reason) >= Rank("bind") => (binds # {} <=> wanted)
       /\ binds # {} =>
            /\ b.address = (IF b.in_address = "NULL" THEN "0.0.0.0" ELSE b.in_address)
            /\ src_call.rendezvous => b.port = b.target
            /\ ~src_call.rendezvous => b.port = b.in_port
            /\ \A i \in binds, j \in connects : i < j

\* A connect in rendezvous mode with no bind address and a bind port other
\* than the target port, which bound and then connected.
C34_Witness ==
  /\ src_call.op = "start"
  /\ src_call.reason = "none"
  /\ src_call.rendezvous
  /\ src_call.bind.tracked
  /\ src_call.bind.in_address = "NULL"
  /\ src_call.bind.in_port # 0
  /\ src_call.bind.in_port # src_call.bind.target
  /\ src_call.bind.address = "0.0.0.0"
  /\ src_call.bind.port = src_call.bind.target
  /\ \E i \in DOMAIN src_call.calls : src_call.calls[i].f = "srt_bind"

\* C11 (as claimed): whenever unlock of the client source has returned, in
\* whatever state it was called, and whenever finalize has returned after
\* it, the call has made no transport call on a handle that is not open
\* (never created, or already released or closed), and after unlock the
\* socket and epoll id fields are invalid.
C11_UnlockIdempotent ==
  /\ src_call.op = "unlock" =>
       /\ src_call.bad = {}
       /\ src_sock = SRT_INVALID_SOCK
       /\ src_poll_id = SRT_ERROR
  /\ (src_call.op = "finalize" /\ src_call.after = "unlock") => src_call.bad = {}

\* C16: a fill of the client source that called the receive function maps its
\* result: 0 gives GST_FLOW_EOS, SRT_ERROR gives GST_FLOW_ERROR, a positive
\* length gives GST_FLOW_OK with the buffer resized to that length; on
\* end-of-stream and on error the last sequence number is left as it was.
C16_FillResultMapped ==
  (src_call.op = "fill" /\ src_call.recv_called) =>
    /\ src_call.recv_len = 0 =>
         (src_call.flow = "GST_FLOW_EOS" /\ src_last_msg_num = src_call.last_in)
    /\ src_call.recv_len = SRT_ERROR =>
         (src_call.flow = "GST_FLOW_ERROR" /\ src_last_msg_num = src_call.last_in)
    /\ src_call.recv_len > 0 =>
         (src_call.flow = "GST_FLOW_OK" /\ src_call.size = src_call.recv_len)

\* End-of-stream after message 5 was received.
C16_Witness ==
  /\ src_call.op = "fill"
  /\ src_call.recv_called
  /\ src_call.recv_len = 0
  /\ src_call.flow = "GST_FLOW_EOS"
  /\ src_call.last_in = 5
  /\ src_last_msg_num = 5

\* C17 (as claimed): a fill waits on the epoll, for at most the poll timeout,
\* before it calls the receive function; a wait that times out makes no
\* receive call and reports no read failure.
C17_WaitsBeforeReceive ==
  src_call.op = "fill" =>
    /\ src_call.recv_called => src_call.wait = "ready"
    /\ src_call.wait = "timeout" =>
         (~src_call.recv_called /\ src_call.flow = "GST_FLOW_OK")

\* C18: in the copy that tracks message numbers, a successful receive whose
\* number is more than one above the last one received since start gives one
\* diagnostic that reports the difference minus one, no other receive gives a
\* diagnostic, and the last number becomes the one received.
C18_GapReported ==
  (src_variant = "current" /\ src_call.op = "fill"
   /\ src_call.flow = "GST_FLOW_OK") =>
    /\ src_last_msg_num = src_call.msgno
    /\ src_call.diag = IF src_call.prev # -1 /\ src_call.msgno - src_call.prev > 1
                       THEN src_call.msgno - src_call.prev - 1
                       ELSE -1

\* Message 9 received after message 6: two messages reported as dropped.
C18_Witness ==
  /\ src_variant = "current"
  /\ src_call.op = "fill"
  /\ src_call.flow = "GST_FLOW_OK"
  /\ src_call.prev = 6
  /\ src_call.msgno = 9
  /\ src_call.diag = 2
  /\ src_last_msg_num = 9

\* C20 (as claimed): the options gst_srt_client_connect_full sets on a socket
\* it created include non-blocking send, TSBPD mode on, linger off, the sender
\* flag of the role, the latency on the option of the role, the rendezvous
\* flag, and the passphrase with the key length exactly when the passphrase is
\* not empty.
C20_OptionsApplied ==
  LET created == \E i \in 1..Len(src_call.calls) :
                   src_call.calls[i].f = "srt_socket" /\ src_call.calls[i].ok
      opts == {src_call.calls[i].arg :
                 i \in {j \in 1..Len(src_call.calls) :
                          src_call.calls[j].f = "srt_setsockopt"}}
  IN (src_call.op = "start" /\ created) =>
       /\ "SRTO_SNDSYN=0" \in opts
       /\ "SRTO_TSBPDMODE=1" \in opts
       /\ "SRTO_LINGER=0" \in opts
       /\ (IF src_call.is_sender THEN "SRTO_SENDER=1" ELSE "SRTO_SENDER=0") \in opts
       /\ (IF src_call.is_sender THEN "SRTO_PEERLATENCY" ELSE "SRTO_RCVLATENCY") \in opts
       /\ (IF src_call.rendezvous THEN "SRTO_RENDEZVOUS=1" ELSE "SRTO_RENDEZVOUS=0")
            \in opts
       /\ ("SRTO_PASSPHRASE" \in opts) = (src_call.passphrase \notin {"NULL", ""})
       /\ ("SRTO_PBKEYLEN" \in opts) = (src_call.passphrase \notin {"NULL", ""})

(* ------------------------------------------------------------------ *)
(* Properties of the configuration surface                             *)
(* ------------------------------------------------------------------ *)

\* C13: setting a URI whose scheme is not "srt", on the base sink or on the
\* base source, returns FALSE, sets the error GST_URI_ERROR_BAD_URI where the
\* caller gave a place for it, and leaves the stored URI as it was; a get that
\* follows returns the URI stored before the rejected set.
C13_BadSchemeRejected ==
  /\ (cfg_call.op = "set_uri"
      /\ gst_uri_get_scheme(gst_uri_from_string(cfg_call.arg)) # "srt") =>
       /\ cfg_call.ret = FALSE
       /\ cfg_call.has_error => cfg_call.error = "GST_URI_ERROR_BAD_URI"
       /\ gst_uri_to_string(IF cfg_call.elem = "sink" THEN sink_uri ELSE src_uri)
            = cfg_call.prior
  /\ (cfg_call.op = "get_uri" /\ cfg_call.after_rejected) =>
       cfg_call.got = cfg_call.prior

\* A get on the base source after a rejected "udp" URI, with a stored URI that
\* is not the default.
C13_Witness ==
  /\ cfg_call.op = "get_uri"
  /\ cfg_call.elem = "src"
  /\ cfg_call.after_rejected
  /\ cfg_call.got = <<"srt", "://", "example.org", ":", "9000">>

\* C14: the key length of the base source is always 16, 24 or 32; a set with
\* another value is rejected and the previous value is kept.
C14_KeyLengthValid ==
  /\ key_length \in KeyLengths
  /\ (cfg_call.op = "set_key_length" /\ cfg_call.key_in \notin KeyLengths) =>
       key_length = cfg_call.key_prior

\* A rejected set of 17 while the key length is 32.
C14_Witness ==
  /\ cfg_call.op = "set_key_length"
  /\ cfg_call.key_in = 17
  /\ cfg_call.key_prior = 32
  /\ key_length = 32

(* ------------------------------------------------------------------ *)
(* Properties of the client sink                                       *)
(* ------------------------------------------------------------------ *)

\* C40 (as claimed): start and stop of the client sink release and close
\* only handles that a create call of the element returned and that are still
\* open, and when the element is stopped after a start or a stop no handle
\* it created is left open.
C40_SinkReleasesOwnHandles ==
  snk_call.op \in {"start", "stop"} =>
    /\ snk_call.bad = {}
    /\ snk_phase = "stopped" => (snk_tr.polls = {} /\ snk_tr.socks = {})

\* C19: a render of the client sink whose buffer reaches send_buffer issues
\* exactly one transport send; when that send fails the write error is posted
\* and render returns GST_FLOW_ERROR, with no second send.
C19_OneSendNoRetry ==
  (snk_call.op = "render" /\ snk_call.mapped) =>
    /\ snk_call.sends = 1
    /\ ~snk_call.send_ok =>
         (snk_call.error = "RESOURCE_WRITE" /\ snk_call.flow = "GST_FLOW_ERROR")
    /\ snk_call.send_ok => snk_call.flow = "GST_FLOW_OK"

\* A failed send on a connected socket.
C19_Witness ==
  /\ snk_call.op = "render"
  /\ snk_call.mapped
  /\ ~snk_call.send_ok
  /\ snk_call.sends = 1
  /\ snk_call.flow = "GST_FLOW_ERROR"
  /\ snk_sock \in snk_tr.connected

====
